---- MODULE Spec2Model ----
(***************************************************************************)
(* A model of pysql_repo's statement builder (src/pysql_repo/utils.py):    *)
(* the filter compiler get_filters / get_conditions_from_dict, the select  *)
(* statement builder build_select_stmt, and the evaluation of the compiled *)
(* predicates against a small table.                                       *)
(***************************************************************************)
EXTENDS Integers, Sequences, FiniteSets, TLC

VARIABLES
    pc,             \* position of the running call
    filters,        \* argument `filters` (the required filter expression)
    optional_filters, \* argument `optional_filters`
    with_optional,  \* argument `with_optional` of get_filters
    relationship_options, \* argument `relationship_options`
    group_by,       \* argument `group_by`
    order_by,       \* argument `order_by`
    direction,      \* argument `direction`
    limit,          \* argument `limit`
    idx,            \* loop index of get_filters over the fields
    conditions,     \* local `conditions` of get_filters / its return value
    stmt,           \* the statement under construction (clauses in the order applied)
    steps,          \* the builder steps entered so far, in order
    error,          \* the exception raised to the caller, or "none"
    result,         \* rows returned by session.execute, or NoResult
    call,           \* the facade call: method, receiver and the other arguments
    log,            \* the interactions with the session so far, in order
    table,          \* the rows of USER as the session sees them
    ret             \* the value returned to the caller, or NoResult

vars == <<pc, filters, optional_filters, with_optional, relationship_options,
          group_by, order_by, direction, limit, idx, conditions, stmt, steps,
          error, result, call, log, table, ret>>

facade == <<call, log, table, ret>>

-----------------------------------------------------------------------------
(* Python values.  Every value is a record tagged by its Python type.      *)

None == [t |-> "None"]
\* sqlalchemy's null() sentinel, an instance of sqlalchemy.sql.elements.Null
Null == [t |-> "Null"]
PyInt(n) == [t |-> "int", i |-> n]
PyStr(s) == [t |-> "str", s |-> s]
PyList(l) == [t |-> "list", l |-> l]
PyTuple(l) == [t |-> "tuple", items |-> l]
PySet(l) == [t |-> "set", members |-> l]
\* a str the model does not look into: a column name, a direction
PyName(n) == [t |-> "str", s |-> <<n>>]
\* a dict is the sequence of its items in insertion order
PyDict(d) == [t |-> "dict", d |-> d]
Item(k, v) == [key |-> k, value |-> v]
\* an InstrumentedAttribute: a mapped column or relationship of a model
Attr(model, name) == [t |-> "attr", model |-> model, name |-> name]

\* isinstance(v, Iterable)
Iterable(v) == v.t \in {"list", "tuple", "set", "str", "dict"}

\* the items a `for v_ in v` loop visits; a str yields its characters
Iterate(v) ==
    CASE v.t = "list" -> v.l
      [] v.t = "tuple" -> v.items
      [] v.t = "set" -> v.members
      [] v.t = "str" -> [j \in 1..Len(v.s) |-> PyStr(<<v.s[j]>>)]
      [] v.t = "dict" -> [j \in 1..Len(v.d) |-> v.d[j].key]

\* whether len(v) is defined, and its value
HasLen(v) == v.t \in {"list", "tuple", "set", "str", "dict"}
PyLen(v) == Len(Iterate(v))
\* whether v[0] is defined for an integer index
Subscriptable(v) == v.t \in {"list", "tuple", "str"}

RECURSIVE Concat(_)
\* the concatenation of a sequence of sequences
Concat(ss) == IF ss = <<>> THEN <<>> ELSE Head(ss) \o Concat(Tail(ss))

-----------------------------------------------------------------------------
(* The Operators enumeration.                                              *)

Operators ==
    {"EQUAL", "IEQUAL", "DIFFERENT", "IDIFFERENT", "LIKE", "NOT_LIKE",
     "ILIKE", "NOT_ILIKE", "BETWEEN", "BETWEEN_OR_EQUAL", "SUPERIOR",
     "INFERIOR", "SUPERIOR_OR_EQUAL", "INFERIOR_OR_EQUAL", "IN", "IIN",
     "NOT_IN", "NOT_IIN", "HAS", "ANY"}

-----------------------------------------------------------------------------
(* SQL expression constructors of the wrapped library, as the terms they   *)
(* build.                                                                  *)

\* key <op> v for the Python comparison operators ==, !=, >, <, >=, <=
Binary(op, left, right) == [t |-> "binary", op |-> op, left |-> left, right |-> right]
\* func.lower(x)
lower(x) == [t |-> "lower", arg |-> x]
\* ~x
Not(x) == [t |-> "not", arg |-> x]
\* tuple_(*clauses): one element per positional argument
tuple_(clauses) == [t |-> "tuple_", clauses |-> clauses]
\* and_(*clauses)
and_(clauses) == [t |-> "and_", clauses |-> clauses]
\* key.has(criterion), key.any(criterion)
has(key, criterion) == [t |-> "has", rel |-> key, criterion |-> criterion]
any(key, criterion) == [t |-> "any", rel |-> key, criterion |-> criterion]

\* a result of a function that may raise: the exception, or "none" and the value
Ok(c) == [err |-> "none", conditions |-> c]
Raise(e) == [err |-> e, conditions |-> <<>>]

-----------------------------------------------------------------------------
(* The filter compiler.                                                    *)

\* v if isinstance(v, Iterable) else [v]
AsIterable(v) == IF Iterable(v) THEN v ELSE PyList(<<v>>)

\* [func.lower(v_) if not isinstance(v_, Null) else v_ for v_ in v]
LowerEach(v) ==
    LET it == Iterate(v)
    IN  PyList([j \in 1..Len(it) |->
                  IF it[j].t # "Null" THEN lower(it[j]) ELSE it[j]])

\* tuple_(*key): the components of the key are the clauses of the tuple
TupleOfKey(key) == tuple_(key.items)

\* tuple_([func.lower(key_) for key_ in key]): the list is the single
\* positional argument of tuple_
TupleOfLoweredKey(key) ==
    tuple_(<<PyList([j \in 1..Len(key.items) |-> lower(key.items[j])])>>)

\* a bound of the wrong length rejected instead of skipped
Between_Rejecting(key, v, lo, hi) ==
    IF ~HasLen(v) THEN Raise("TypeError")
    ELSE IF PyLen(v) # 2 THEN Raise("ValueError")
    ELSE LET b == Iterate(v)
         IN  Ok((IF b[1] # None THEN <<Binary(lo, key, b[1])>> ELSE <<>>)
                \o (IF b[2] # None THEN <<Binary(hi, key, b[2])>> ELSE <<>>))

\* case Operators.BETWEEN / BETWEEN_OR_EQUAL; lo and hi are the operators
\* of the lower and the upper side
Between(key, v, lo, hi) ==
    IF ~HasLen(v) THEN Raise("TypeError")
    ELSE IF PyLen(v) # 2 THEN Ok(<<>>)
    ELSE IF ~Subscriptable(v)
         THEN Raise(IF v.t = "dict" THEN "KeyError" ELSE "TypeError")
    ELSE LET b == Iterate(v)
         IN  Ok((IF b[1] # None THEN <<Binary(lo, key, b[1])>> ELSE <<>>)
                \o (IF b[2] # None THEN <<Binary(hi, key, b[2])>> ELSE <<>>))

\* the case-insensitive and pattern operators: fold is the condition built
\* for a value that is not Null, plain the operator used for Null
UnlessNull(v, fold, key, plain) ==
    IF v.t # "Null" THEN Ok(<<fold>>) ELSE Ok(<<Binary(plain, key, v)>>)

\* IEQUAL and IDIFFERENT with the value compared as given
FoldedComparison_KeyOnly(op, key, v) ==
    UnlessNull(v, Binary(op, lower(key), v), key, op)

\* case Operators.IEQUAL / IDIFFERENT: both sides lower-cased
FoldedComparison(op, key, v) ==
    UnlessNull(v, Binary(op, lower(key), lower(v)), key, op)

\* the branches of `match k` that do not recurse
MatchScalar(key, k, v) ==
    CASE k = "EQUAL" -> Ok(<<Binary("==", key, v)>>)
      [] k = "IEQUAL" -> FoldedComparison("==", key, v)
      [] k = "DIFFERENT" -> Ok(<<Binary("!=", key, v)>>)
      [] k = "IDIFFERENT" -> FoldedComparison("!=", key, v)
      [] k = "LIKE" -> UnlessNull(v, Binary("like", key, v), key, "==")
      [] k = "NOT_LIKE" -> UnlessNull(v, Not(Binary("like", key, v)), key, "!=")
      [] k = "ILIKE" -> UnlessNull(v, Binary("ilike", key, v), key, "==")
      [] k = "NOT_ILIKE" -> UnlessNull(v, Not(Binary("ilike", key, v)), key, "!=")
      [] k = "BETWEEN" -> Between(key, v, ">", "<")
      [] k = "BETWEEN_OR_EQUAL" -> Between(key, v, ">=", "<=")
      [] k = "SUPERIOR" -> Ok(<<Binary(">", key, v)>>)
      [] k = "INFERIOR" -> Ok(<<Binary("<", key, v)>>)
      [] k = "SUPERIOR_OR_EQUAL" -> Ok(<<Binary(">=", key, v)>>)
      [] k = "INFERIOR_OR_EQUAL" -> Ok(<<Binary("<=", key, v)>>)
      [] k = "IN" ->
            IF key.t = "tuple"
            THEN Ok(<<Binary("in", TupleOfKey(key), AsIterable(v))>>)
            ELSE Ok(<<Binary("in", key, AsIterable(v))>>)
      [] k = "IIN" ->
            IF key.t = "tuple"
            THEN Ok(<<Binary("in", TupleOfLoweredKey(key), LowerEach(AsIterable(v)))>>)
            ELSE Ok(<<Binary("in", lower(key), LowerEach(AsIterable(v)))>>)
      [] k = "NOT_IN" ->
            IF key.t = "tuple"
            THEN Ok(<<Binary("notin", TupleOfKey(key), AsIterable(v))>>)
            ELSE Ok(<<Binary("notin", key, AsIterable(v))>>)
      [] k = "NOT_IIN" ->
            IF key.t = "tuple"
            THEN Ok(<<Binary("notin", TupleOfLoweredKey(key), LowerEach(AsIterable(v)))>>)
            ELSE Ok(<<Binary("notin", lower(key), LowerEach(AsIterable(v)))>>)
      [] OTHER -> Ok(<<>>)

\* HAS as ANY does it: one key.has over the conjunction
HasConditions_Conjoined(key, nested) ==
    IF Len(nested) = 0 THEN <<>> ELSE <<has(key, and_(nested))>>

\* case Operators.HAS: one key.has(condition) per nested condition
HasConditions(key, nested) ==
    [j \in 1..Len(nested) |-> has(key, nested[j])]

\* ANY as HAS does it: one key.any per nested condition
AnyConditions_PerPredicate(key, nested) ==
    [j \in 1..Len(nested) |-> any(key, nested[j])]

\* case Operators.ANY: nothing for no nested condition, else one key.any(and_(*v))
AnyConditions(key, nested) ==
    IF Len(nested) = 0 THEN <<>> ELSE <<any(key, and_(nested))>>

\* the skip left out
SkipOptional_Never(with_opt, v) == FALSE

\* the skip taken whatever with_optional is
SkipOptional_Always(with_opt, v) == v = None

\* `if with_optional and v is None: continue`
SkipOptional(with_opt, v) == with_opt /\ v = None

\* the nested call left at its default, with_optional = False
NestedWithOptional_Default(with_opt) == FALSE

\* the with_optional handed to the nested get_filters of HAS and ANY
NestedWithOptional(with_opt) == with_opt

RECURSIVE get_filters(_, _)
RECURSIVE get_conditions_from_dict(_, _)
RECURSIVE MatchOperator(_, _, _, _)
RECURSIVE OperatorsLoop(_, _, _, _, _)
RECURSIVE FieldsLoop(_, _, _, _)

\* the branches HAS and ANY of `match k`, r what get_filters gave for v
MatchRelationship(key, k, r) ==
    IF r.err # "none" THEN r
    ELSE IF k = "HAS" THEN Ok(HasConditions(key, r.conditions))
    ELSE Ok(AnyConditions(key, r.conditions))

\* the body of `match k` for one operator entry k: v of the field key
MatchOperator(key, k, v, with_opt) ==
    IF k \in {"HAS", "ANY"}
    THEN MatchRelationship(key, k, get_filters(v, NestedWithOptional(with_opt)))
    ELSE MatchScalar(key, k, v)

\* conditions.extend / conditions.append of what r gave, or its exception
Extend(acc, r) ==
    IF r.err # "none" THEN r ELSE Ok(acc.conditions \o r.conditions)

\* `for k, v in value.items()` from item j on; acc holds the conditions so
\* far, or the exception that ended the loop
OperatorsLoop(key, items, j, with_opt, acc) ==
    IF j > Len(items) \/ acc.err # "none" THEN acc
    ELSE IF SkipOptional(with_opt, items[j].value)
         THEN OperatorsLoop(key, items, j + 1, with_opt, acc)
    ELSE OperatorsLoop(key, items, j + 1, with_opt,
                       Extend(acc, MatchOperator(key, items[j].key,
                                                 items[j].value, with_opt)))

\* `for key, value in values.items()` from item j on
FieldsLoop(items, j, with_opt, acc) ==
    IF j > Len(items) \/ acc.err # "none" THEN acc
    ELSE IF items[j].value.t = "dict"
         THEN FieldsLoop(items, j + 1, with_opt,
                         OperatorsLoop(items[j].key, items[j].value.d, 1,
                                       with_opt, acc))
    ELSE FieldsLoop(items, j + 1, with_opt, acc)

get_conditions_from_dict(values, with_opt) ==
    FieldsLoop(values.d, 1, with_opt, Ok(<<>>))

\* one iteration of get_filters' loop: filter_c is {x: y} for item j
FilterStep(f, j, with_opt) ==
    get_conditions_from_dict(PyDict(<<f.d[j]>>), with_opt)

RECURSIVE FiltersLoop(_, _, _, _)
FiltersLoop(f, j, with_opt, acc) ==
    IF j > Len(f.d) \/ acc.err # "none" THEN acc
    ELSE FiltersLoop(f, j + 1, with_opt, Extend(acc, FilterStep(f, j, with_opt)))

\* a non-mapping taken as no filter
FiltersEntry_Lenient(f) ==
    IF f = None \/ f.t # "dict" THEN "return" ELSE "loop"

\* the check on entry of get_filters: "return", "raise" or "loop"
FiltersEntry(f) ==
    IF f = None THEN "return"
    ELSE IF f.t # "dict" THEN "raise"
    ELSE "loop"

get_filters(f, with_opt) ==
    CASE FiltersEntry(f) = "return" -> Ok(<<>>)
      [] FiltersEntry(f) = "raise" -> Raise("TypeError")
      [] OTHER -> FiltersLoop(f, 1, with_opt, Ok(<<>>))

-----------------------------------------------------------------------------
(* Statements.  A statement is the record of its clauses; the generative   *)
(* methods of the wrapped library return the statement with one more.      *)

\* select(model): nothing applied yet
Select(model) ==
    [t |-> "select", model |-> model, options |-> <<>>, where |-> <<>>,
     group_by |-> <<>>, order_by |-> <<>>, limit |-> None, offset |-> None]

\* stmt.filter(criterion)
Filter(s, criterion) == [s EXCEPT !.where = Append(@, criterion)]

\* a criterion is added whether there are conditions or not
FilterUnlessEmpty_Always(s, conds) == Filter(s, and_(conds))

\* `stmt if len(filters) == 0 else stmt.filter(and_(*filters))`
FilterUnlessEmpty(s, conds) ==
    IF Len(conds) = 0 THEN s ELSE Filter(s, and_(conds))

\* the result of a builder step: the statement, or the exception raised
Built(s) == [err |-> "none", stmt |-> s]
Failed(e, s) == [err |-> e, stmt |-> s]

\* the statement apply_filters returns for what get_filters gave
Filtered(s, r) ==
    IF r.err # "none" THEN Failed(r.err, s)
    ELSE Built(FilterUnlessEmpty(s, r.conditions))

apply_filters(s, filter_dict, with_opt) ==
    Filtered(s, get_filters(filter_dict, with_opt))

\* the LoadingTechnique enumeration
LoadingTechniques ==
    {"CONTAINS_EAGER", "LAZY", "JOINED", "SUBQUERY", "SELECTIN", "RAISE", "NOLOAD"}

RelationshipOption(lazy, added_criteria, children) ==
    [t |-> "RelationshipOption", lazy |-> lazy,
     added_criteria |-> added_criteria, children |-> children]

\* item.and_(*extra_conditions)
AttrAnd(item, extra_conditions) ==
    [t |-> "attr_and", attr |-> item, criteria |-> Iterate(extra_conditions)]

\* the extra conditions on the last item only, the items above it as they are
get_load_OwnCriteria(loading_technique, items, extra_conditions) ==
    LET items_post == [j \in 1..Len(items) |->
                         IF extra_conditions # None /\ j = Len(items)
                         THEN AttrAnd(items[j], extra_conditions)
                         ELSE items[j]]
    IN  IF loading_technique \in LoadingTechniques
        THEN [t |-> "load", technique |-> loading_technique, path |-> items_post]
        ELSE None

\* the loader option over the last item only
get_load_OwnAttribute(loading_technique, items, extra_conditions) ==
    IF loading_technique \in LoadingTechniques
    THEN [t |-> "load", technique |-> loading_technique,
          path |-> <<IF extra_conditions # None
                     THEN AttrAnd(items[Len(items)], extra_conditions)
                     ELSE items[Len(items)]>>]
    ELSE None

\* get_load: the loader option of the technique over the path items, each
\* item restricted by the extra conditions when there are some; None for a
\* technique outside the enumeration
get_load(loading_technique, items, extra_conditions) ==
    LET items_post == [j \in 1..Len(items) |->
                         IF extra_conditions # None
                         THEN AttrAnd(items[j], extra_conditions)
                         ELSE items[j]]
    IN  IF loading_technique \in LoadingTechniques
        THEN [t |-> "load", technique |-> loading_technique, path |-> items_post]
        ELSE None

\* the entries the loop of apply_relationship_options skips
SkippedOption(relationship, sub_relationships) ==
    \/ relationship = None
    \/ relationship.t # "attr"
    \/ sub_relationships = None
    \/ sub_relationships.t # "RelationshipOption"

RECURSIVE OptionsLoop(_, _, _, _)
\* `for relationship, sub_relationships in relationship_options.items()`
\* from item j on; parents is None or the list of the attributes above
OptionsLoop(s, items, j, parents) ==
    IF j > Len(items) THEN s
    ELSE IF SkippedOption(items[j].key, items[j].value)
         THEN OptionsLoop(s, items, j + 1, parents)
    ELSE LET sub_items == IF parents = None THEN <<items[j].key>>
                          ELSE Append(parents.l, items[j].key)
             load == get_load(items[j].value.lazy, sub_items,
                              items[j].value.added_criteria)
             s1 == IF load # None THEN [s EXCEPT !.options = Append(@, load)]
                   ELSE s
             children == items[j].value.children
             s2 == IF children # None
                   THEN OptionsLoop(s1, children.d, 1, PyList(sub_items))
                   ELSE s1
         IN  OptionsLoop(s2, items, j + 1, parents)

apply_relationship_options(s, options, parents) ==
    IF options = None THEN s ELSE OptionsLoop(s, options.d, 1, parents)

\* `stmt.group_by(group_by) if group_by is not None else stmt`
apply_group_by(s, g) ==
    IF g # None THEN [s EXCEPT !.group_by = Append(@, g)] ELSE s

\* the mapped attributes getattr(model, column) finds
ModelAttributes(model) ==
    CASE model = "User" -> {"id", "email", "addresses"}
      [] model = "Address" -> {"id", "zip_code", "city"}
      [] model = "City" -> {"id", "name"}
      [] OTHER -> {}

\* `[x] if isinstance(x, str) else x`
AsList(x) == IF x.t = "str" THEN <<x>> ELSE Iterate(x)

\* every direction but "desc" taken as ascending
OrderClause_Ascending(model, column, dir) ==
    IF dir = PyName("desc") THEN <<[t |-> "desc", column |-> Attr(model, column.s[1])]>>
    ELSE <<[t |-> "asc", column |-> Attr(model, column.s[1])]>>

\* the clause of one (column, dir) pair of the zip: desc, asc, or none
OrderClause(model, column, dir) ==
    IF dir = PyName("desc") THEN <<[t |-> "desc", column |-> Attr(model, column.s[1])]>>
    ELSE IF dir = PyName("asc") THEN <<[t |-> "asc", column |-> Attr(model, column.s[1])]>>
    ELSE <<>>

\* the two lists zipped to the shorter one instead of the length check
apply_order_by_Truncating(s, model, ob, dir) ==
    IF ob = None \/ dir = None THEN Built(s)
    ELSE LET cols == AsList(ob)
             dirs == AsList(dir)
             n == IF Len(cols) < Len(dirs) THEN Len(cols) ELSE Len(dirs)
         IN  Built([s EXCEPT !.order_by =
                      @ \o Concat([j \in 1..n |->
                                     OrderClause(model, cols[j], dirs[j])])])

apply_order_by(s, model, ob, dir) ==
    IF ob = None \/ dir = None THEN Built(s)
    ELSE LET cols == AsList(ob)
             dirs == AsList(dir)
         IN  IF Len(cols) # Len(dirs) THEN Failed("ValueError", s)
             ELSE IF \E j \in 1..Len(cols) :
                        /\ dirs[j] \in {PyName("desc"), PyName("asc")}
                        /\ cols[j].s[1] \notin ModelAttributes(model)
                  THEN Failed("AttributeError", s)
             ELSE Built([s EXCEPT !.order_by =
                           @ \o Concat([j \in 1..Len(cols) |->
                                          OrderClause(model, cols[j], dirs[j])])])

\* `stmt.limit(limit) if limit is not None else stmt`
apply_limit(s, n) == IF n # None THEN [s EXCEPT !.limit = n] ELSE s

\* the limit applied before the filters
BuildSteps_LimitFirst ==
    <<"apply_relationship_options", "apply_limit", "apply_filters",
      "apply_optional_filters", "apply_group_by", "apply_order_by">>

\* the calls of build_select_stmt, in its order
BuildSteps ==
    <<"apply_relationship_options", "apply_filters", "apply_optional_filters",
      "apply_group_by", "apply_order_by", "apply_limit">>

\* one call of build_select_stmt on the statement so far
BuildStep(step, s, model, f, of, options, g, ob, dir, n) ==
    CASE step = "apply_relationship_options" ->
            Built(apply_relationship_options(s, options, None))
      [] step = "apply_filters" -> apply_filters(s, f, FALSE)
      [] step = "apply_optional_filters" -> apply_filters(s, of, TRUE)
      [] step = "apply_group_by" -> Built(apply_group_by(s, g))
      [] step = "apply_order_by" -> apply_order_by(s, model, ob, dir)
      [] step = "apply_limit" -> Built(apply_limit(s, n))

RECURSIVE BuildFrom(_, _, _, _, _, _, _, _, _, _)
\* the calls from the j-th on; r is the statement so far, or the exception
\* that ended the function
BuildFrom(j, r, model, f, of, options, g, ob, dir, n) ==
    IF j > Len(BuildSteps) \/ r.err # "none" THEN r
    ELSE BuildFrom(j + 1,
                   BuildStep(BuildSteps[j], r.stmt, model, f, of, options, g,
                             ob, dir, n),
                   model, f, of, options, g, ob, dir, n)

build_select_stmt(s, model, f, of, options, g, ob, dir, n) ==
    BuildFrom(1, Built(s), model, f, of, options, g, ob, dir, n)

-----------------------------------------------------------------------------
(* The schema of the tests: User -< Address >- City.                       *)

User_id == Attr("User", "id")
User_email == Attr("User", "email")
User_addresses == Attr("User", "addresses")
Address_zip_code == Attr("Address", "zip_code")
Address_city == Attr("Address", "city")
City_id == Attr("City", "id")
City_name == Attr("City", "name")

\* the model a relationship attribute leads to
Target(rel) ==
    CASE rel = User_addresses -> "Address"
      [] rel = Address_city -> "City"

IntColumns(model) ==
    CASE model = "User" -> {User_id}
      [] model = "Address" -> {Address_zip_code}
      [] model = "City" -> {City_id}
StrColumns(model) ==
    CASE model = "User" -> {User_email}
      [] model = "City" -> {City_name}
      [] OTHER -> {}
TupleKeys(model) ==
    IF model = "User" THEN {PyTuple(<<User_id, User_email>>)} ELSE {}
\* collection relationships (filtered with ANY) and scalar ones (with HAS)
ManyRelationships(model) == IF model = "User" THEN {User_addresses} ELSE {}
OneRelationships(model) == IF model = "Address" THEN {Address_city} ELSE {}
KeysOf(model) ==
    IntColumns(model) \cup StrColumns(model) \cup TupleKeys(model)
    \cup ManyRelationships(model) \cup OneRelationships(model)

-----------------------------------------------------------------------------
(* The rows of the tables and the engine's evaluation of a statement.      *)
(* A column holds an int, a str or None (NULL); a relationship holds the   *)
(* sequence of the related rows.                                           *)

CityRow(id, name) == [model |-> "City", id |-> PyInt(id), name |-> PyStr(name)]
AddressRow(id, zip_code, city) ==
    [model |-> "Address", id |-> PyInt(id), zip_code |-> zip_code, city |-> city]
UserRow(id, email, addresses) ==
    [model |-> "User", id |-> PyInt(id), email |-> email, addresses |-> addresses]

Cities == <<CityRow(1, <<"a", "b">>), CityRow(2, <<"A", "b">>)>>
Addresses ==
    <<AddressRow(1, PyInt(1), <<Cities[1]>>),
      AddressRow(2, PyInt(2), <<Cities[1]>>),
      AddressRow(3, PyInt(3), <<Cities[2]>>),
      AddressRow(4, None, <<>>)>>
Users ==
    <<UserRow(1, PyStr(<<"a", "b">>), <<Addresses[1], Addresses[2]>>),
      UserRow(2, PyStr(<<"A", "b">>), <<Addresses[3]>>),
      UserRow(3, PyStr(<<"b", "a">>), <<>>),
      UserRow(4, None, <<Addresses[4]>>)>>

Table(model) ==
    CASE model = "User" -> Users
      [] model = "Address" -> Addresses
      [] model = "City" -> Cities

\* the characters of the strings: two letters in both cases, and the
\* wildcard of LIKE
Letters == {"a", "A", "b", "B"}
LowerChar(c) ==
    CASE c = "A" -> "a"
      [] c = "B" -> "b"
      [] OTHER -> c
LowerStr(str) == [j \in 1..Len(str) |-> LowerChar(str[j])]

RECURSIVE LikeMatch(_, _)
\* str LIKE pattern, % matching any run of characters
LikeMatch(str, pattern) ==
    IF pattern = <<>> THEN str = <<>>
    ELSE IF Head(pattern) = "%"
         THEN \/ LikeMatch(str, Tail(pattern))
              \/ str # <<>> /\ LikeMatch(Tail(str), pattern)
    ELSE /\ str # <<>>
         /\ Head(str) = Head(pattern)
         /\ LikeMatch(Tail(str), Tail(pattern))

\* three-valued logic: "T", "F", "U" (unknown)
Bool3(b) == IF b THEN "T" ELSE "F"
Not3(b) == CASE b = "T" -> "F" [] b = "F" -> "T" [] OTHER -> "U"
And3(bs) ==
    IF \E j \in 1..Len(bs) : bs[j] = "F" THEN "F"
    ELSE IF \E j \in 1..Len(bs) : bs[j] = "U" THEN "U"
    ELSE "T"

RECURSIVE Value(_, _)
\* the value of a column expression or of a bound literal on a row
Value(x, row) ==
    CASE x.t = "attr" -> row[x.name]
      [] x.t = "lower" ->
            LET a == Value(x.arg, row)
            IN  IF a.t = "str" THEN PyStr(LowerStr(a.s)) ELSE a
      [] x.t = "Null" -> None
      [] OTHER -> x

\* a comparison of two values; NULL on either side is unknown
Compare(op, a, b) ==
    IF a = None \/ b = None THEN "U"
    ELSE CASE op = "==" -> Bool3(a = b)
           [] op = "!=" -> Bool3(a # b)
           [] op = ">" -> Bool3(a.i > b.i)
           [] op = "<" -> Bool3(a.i < b.i)
           [] op = ">=" -> Bool3(a.i >= b.i)
           [] op = "<=" -> Bool3(a.i <= b.i)
           [] op = "like" -> Bool3(LikeMatch(a.s, b.s))
           [] op = "ilike" -> Bool3(LikeMatch(LowerStr(a.s), LowerStr(b.s)))

\* a IN (values): nothing is in the empty list
In3(a, values) ==
    IF Len(values) = 0 THEN "F"
    ELSE IF a = None THEN "U"
    ELSE IF \E j \in 1..Len(values) : values[j] = a THEN "T"
    ELSE IF \E j \in 1..Len(values) : values[j] = None THEN "U"
    ELSE "F"

RECURSIVE Eval(_, _)
\* the truth value of a condition on a row
Eval(c, row) ==
    CASE c.t = "binary" ->
            IF c.op \in {"==", "!="} /\ c.right.t \in {"None", "Null"}
            THEN \* IS NULL, IS NOT NULL
                 Bool3((Value(c.left, row) = None) <=> (c.op = "=="))
            ELSE IF c.op = "in"
                 THEN In3(Value(c.left, row),
                          [j \in 1..PyLen(c.right) |-> Value(Iterate(c.right)[j], row)])
            ELSE IF c.op = "notin"
                 THEN Not3(In3(Value(c.left, row),
                          [j \in 1..PyLen(c.right) |-> Value(Iterate(c.right)[j], row)]))
            ELSE Compare(c.op, Value(c.left, row), Value(c.right, row))
      [] c.t = "not" -> Not3(Eval(c.arg, row))
      [] c.t = "and_" -> And3([j \in 1..Len(c.clauses) |-> Eval(c.clauses[j], row)])
      [] c.t \in {"has", "any"} ->
            \* EXISTS a related row on which the criterion is true
            Bool3(\E j \in 1..Len(row[c.rel.name]) :
                     Eval(c.criterion, row[c.rel.name][j]) = "T")

\* the rows of the WHERE clause: those on which every criterion is true
SelectedFrom(rows, s) ==
    SelectSeq(rows,
              LAMBDA row : \A j \in 1..Len(s.where) : Eval(s.where[j], row) = "T")
Selected(s) == SelectedFrom(Table(s.model), s)

\* OFFSET and LIMIT on the selected rows
Sliced(rows, offset, n) ==
    LET from == IF offset = None THEN 0 ELSE offset.i
        upto == IF n = None THEN Len(rows)
                ELSE IF from + n.i < Len(rows) THEN from + n.i ELSE Len(rows)
    IN  SubSeq(rows, from + 1, upto)

\* the technique the directives give for the relationships of path: that of
\* the last directive on it, or the lazy="joined" of the mapped classes
Technique(options, path) ==
    IF \E j \in 1..Len(options) :
          [n \in 1..Len(options[j].path) |->
              IF options[j].path[n].t = "attr_and" THEN options[j].path[n].attr
              ELSE options[j].path[n]] = path
    THEN options[CHOOSE j \in 1..Len(options) :
                    /\ [n \in 1..Len(options[j].path) |->
                          IF options[j].path[n].t = "attr_and"
                          THEN options[j].path[n].attr
                          ELSE options[j].path[n]] = path
                    /\ \A k \in (j + 1)..Len(options) :
                          [n \in 1..Len(options[k].path) |->
                              IF options[k].path[n].t = "attr_and"
                              THEN options[k].path[n].attr
                              ELSE options[k].path[n]] # path].technique
    ELSE "JOINED"

RECURSIVE LoadedRow(_, _, _)
\* the entity of a row reached by path: a relationship of technique NOLOAD
\* is left empty, the others hold the entities of the related rows
LoadedRow(row, options, path) ==
    [f \in DOMAIN row |->
        IF Attr(row.model, f) \in {User_addresses, Address_city}
        THEN IF Technique(options, Append(path, Attr(row.model, f))) = "NOLOAD"
             THEN <<>>
             ELSE [j \in 1..Len(row[f]) |->
                     LoadedRow(row[f][j], options, Append(path, Attr(row.model, f)))]
        ELSE row[f]]

\* the rows of the result: with User.addresses loaded by a join, one row of
\* the user for each of its addresses, and one for a user without address
RawRows(rows, options) ==
    Concat([j \in 1..Len(rows) |->
              IF /\ rows[j].model = "User"
                 /\ Technique(options, <<User_addresses>>) = "JOINED"
                 /\ Len(rows[j].addresses) > 1
              THEN [n \in 1..Len(rows[j].addresses) |->
                      LoadedRow(rows[j], options, <<>>)]
              ELSE <<LoadedRow(rows[j], options, <<>>)>>])

\* the result as it is, the rows of a parent repeated
Unique_Keeping(rows) == rows

\* `.unique()`: each entity once, at its first place
Unique(rows) ==
    SelectSeq([j \in 1..Len(rows) |->
                 IF \E k \in 1..(j - 1) : rows[k] = rows[j] THEN None ELSE rows[j]],
              LAMBDA row : row # None)

\* session.execute(stmt).unique().scalars().all()
Execute(s) ==
    Unique(RawRows(Sliced(Selected(s), s.offset, s.limit), s.options))

\* the same on the rows the session sees
ExecuteOn(rows, s) == Sliced(SelectedFrom(rows, s), s.offset, s.limit)

\* session.scalar(select(func.count()).select_from(stmt))
CountQuery(rows, s) == Len(ExecuteOn(rows, s))

-----------------------------------------------------------------------------
(* Pagination.                                                             *)

\* json.dumps of a dict: its members in insertion order
JsonDumps(d) ==
    [t |-> "json", members |-> [j \in 1..Len(d) |-> <<d[j].key, d[j].value>>]]

\* the page count rounded down
TotalPages_Floor(total_results, per_page) == total_results \div per_page

\* (total_results + per_page - 1) // per_page
TotalPages(total_results, per_page) ==
    (total_results + per_page - 1) \div per_page

\* the limit of the plan kept when it is below per_page
OffsetLimit_Capped(s, page, per_page) ==
    [s EXCEPT !.offset = PyInt((page - 1) * per_page),
              !.limit = IF s.limit # None /\ s.limit.i < per_page THEN s.limit
                        ELSE PyInt(per_page)]

\* stmt.offset((page - 1) * per_page).limit(per_page)
OffsetLimit(s, page, per_page) ==
    [s EXCEPT !.offset = PyInt((page - 1) * per_page), !.limit = PyInt(per_page)]

\* the count query sent although there is nothing to paginate
Unpaginated_Counting(s) == [stmt |-> s, pagination |-> None, counted |-> TRUE]

\* `return stmt, None`
Unpaginated(s) == [stmt |-> s, pagination |-> None, counted |-> FALSE]

\* the statement and the descriptor for a count of total_results
Paginated(s, total_results, page, per_page) ==
    [stmt |-> OffsetLimit(s, page, per_page),
     pagination |-> JsonDumps(<<Item("total", total_results),
                                Item("page", page),
                                Item("per_page", per_page),
                                Item("total_pages",
                                     TotalPages(total_results, per_page))>>),
     counted |-> TRUE]

\* apply_pagination on the rows the session sees; counted tells whether the
\* count query was sent
apply_pagination(rows, s, page, per_page) ==
    IF page = None \/ per_page = None THEN Unpaginated(s)
    ELSE Paginated(s, CountQuery(rows, s), page.i, per_page.i)

async_apply_pagination(rows, s, page, per_page) ==
    IF page = None \/ per_page = None THEN Unpaginated(s)
    ELSE Paginated(s, CountQuery(rows, s), page.i, per_page.i)

-----------------------------------------------------------------------------
(* The filter expressions the compiler is run on.                          *)

\* operator entries of one filter expression, nested ones included
MaxEntries == 2

ComparisonOps ==
    {"EQUAL", "DIFFERENT", "SUPERIOR", "INFERIOR", "SUPERIOR_OR_EQUAL",
     "INFERIOR_OR_EQUAL"}
BetweenOps == {"BETWEEN", "BETWEEN_OR_EQUAL"}
MembershipOps == {"IN", "IIN", "NOT_IN", "NOT_IIN"}
CaseInsensitiveOps ==
    {"IEQUAL", "IDIFFERENT", "ILIKE", "NOT_ILIKE", "IIN", "NOT_IIN"}

\* the operator entries of an int column: every comparison operator with
\* None, the bounds of every shape, a non-iterable and a list for IN
IntEntries(model) ==
    IF model = "User"
    THEN {Item(k, None) : k \in ComparisonOps}
         \cup {Item("EQUAL", PyInt(1))}
         \cup {Item("BETWEEN", v) :
                 v \in {None, PyList(<<None, None>>), PyList(<<PyInt(1), None>>),
                        PyList(<<None, PyInt(2)>>), PyList(<<PyInt(1), PyInt(2)>>),
                        PyList(<<PyInt(1), PyInt(2), PyInt(3)>>)}}
         \cup {Item("BETWEEN_OR_EQUAL", v) :
                 v \in {PyList(<<PyInt(1), None>>), PyList(<<None, PyInt(2)>>),
                        PyList(<<PyInt(1)>>)}}
         \cup {Item("IN", PyInt(1)), Item("IN", PyList(<<PyInt(1), PyInt(2)>>)),
               Item("NOT_IN", PyList(<<PyInt(1), PyInt(2)>>)),
               Item("UNKNOWN", PyInt(1))}
    ELSE {Item("EQUAL", None), Item("EQUAL", PyInt(1)),
          Item("BETWEEN", PyList(<<PyInt(1), PyInt(2)>>)),
          Item("BETWEEN_OR_EQUAL", PyList(<<PyInt(1), PyInt(2)>>)),
          Item("IN", PyList(<<PyInt(1), PyInt(2)>>)),
          Item("NOT_IN", None)}

StrEntries(model) ==
    IF model = "User"
    THEN {Item("IEQUAL", v) : v \in {None, Null, PyStr(<<"A", "b">>)}}
         \cup {Item(k, PyStr(<<"A", "b">>)) :
                 k \in {"IDIFFERENT", "LIKE", "ILIKE", "NOT_ILIKE"}}
         \cup {Item("NOT_LIKE", Null),
               Item("IIN", PyList(<<PyStr(<<"A", "b">>), Null>>)),
               Item("NOT_IIN", PyList(<<PyStr(<<"A", "b">>)>>))}
    ELSE {Item("IEQUAL", None), Item("IEQUAL", PyStr(<<"A", "b">>)),
          Item("LIKE", PyStr(<<"A", "b">>))}

TupleEntries ==
    {Item(k, PyList(<<PyTuple(<<PyInt(1), PyStr(<<"A", "b">>)>>)>>)) :
        k \in MembershipOps}

\* HAS / ANY entries without a nested entry: None, a non-mapping, {}
RelationshipLeafEntries(op) ==
    {Item(op, v) : v \in {None, PyInt(1), PyDict(<<>>)}}

ItemKeys(items) == {items[j].key : j \in 1..Len(items)}

RECURSIVE ExprsOfSize(_, _)
RECURSIVE OpDictsOfSize(_, _, _)
RECURSIVE EntriesOfSize(_, _, _)

\* the operator entries of weight n (1 + the nested entries) for a key of model
EntriesOfSize(model, key, n) ==
    LET op == IF key \in ManyRelationships(model) THEN "ANY" ELSE "HAS"
    IN  IF key \in ManyRelationships(model) \cup OneRelationships(model)
        THEN IF n = 1 THEN RelationshipLeafEntries(op)
             ELSE {Item(op, PyDict(d)) : d \in ExprsOfSize(Target(key), n - 1)}
        ELSE IF n # 1 THEN {}
        ELSE IF key \in IntColumns(model) THEN IntEntries(model)
        ELSE IF key \in StrColumns(model) THEN StrEntries(model)
        ELSE TupleEntries

\* the operator dicts of total weight n for a key; a dict holds a key once
OpDictsOfSize(model, key, n) ==
    IF n = 0 THEN {<<>>}
    ELSE UNION {{<<e>> \o rest :
                    e \in EntriesOfSize(model, key, m),
                    rest \in OpDictsOfSize(model, key, n - m)} :
                m \in 1..n}

DistinctKeys(items) == Cardinality(ItemKeys(items)) = Len(items)

\* the filter dicts of total weight n over the attributes of model
ExprsOfSize(model, n) ==
    IF n = 0 THEN {<<>>}
    ELSE UNION {{<<Item(mk[2], PyDict(od))>> \o rest :
                    od \in {o \in OpDictsOfSize(model, mk[2], mk[1]) : DistinctKeys(o)},
                    rest \in {r \in ExprsOfSize(model, n - mk[1]) :
                                mk[2] \notin ItemKeys(r)}} :
                mk \in (1..n) \X KeysOf(model)}

FilterDicts(n) ==
    {PyDict(d) : d \in UNION {ExprsOfSize(mm[1], mm[2]) :
                                mm \in {"User", "Address"} \X (0..n)}}

\* a field whose value is no dict: a set, an int
NonDictFields == {PyDict(<<Item(User_id, v)>>) : v \in {PySet(<<PyInt(1)>>), PyInt(1)}}

FilterExprs == {None, PyList(<<>>)} \cup NonDictFields \cup FilterDicts(MaxEntries)

-----------------------------------------------------------------------------
(* get_filters, one loop iteration per step.                               *)

\* the filter expression of one operator entry
OneEntry(key, k, v) == PyDict(<<Item(key, PyDict(<<Item(k, v)>>))>>)

NoResult == [t |-> "NoResult"]
\* outside a facade call
NoCall == [op |-> "none"]

InitFilters ==
    /\ pc = "get_filters"
    /\ filters \in FilterExprs
    /\ with_optional \in BOOLEAN
    /\ optional_filters = None
    /\ relationship_options = None
    /\ group_by = None
    /\ order_by = None
    /\ direction = None
    /\ limit = None
    /\ idx = 0
    /\ conditions = <<>>
    /\ stmt = Select("User")
    /\ steps = <<>>
    /\ error = "none"
    /\ result = NoResult
    /\ call = NoCall
    /\ log = <<>>
    /\ table = Users
    /\ ret = NoResult

args == <<filters, optional_filters, with_optional, relationship_options,
          group_by, order_by, direction, limit>>

\* `if filters is None: return []`
GetFiltersNone ==
    /\ pc = "get_filters"
    /\ FiltersEntry(filters) = "return"
    /\ pc' = "returned"
    /\ UNCHANGED <<args, facade, idx, conditions, stmt, steps, error, result>>

\* `if not isinstance(filters, dict): raise TypeError`
GetFiltersRaise ==
    /\ pc = "get_filters"
    /\ FiltersEntry(filters) = "raise"
    /\ pc' = "raised"
    /\ error' = "TypeError"
    /\ UNCHANGED <<args, facade, idx, conditions, stmt, steps, result>>

GetFiltersEnter ==
    /\ pc = "get_filters"
    /\ FiltersEntry(filters) = "loop"
    /\ pc' = "loop"
    /\ idx' = 1
    /\ UNCHANGED <<args, facade, conditions, stmt, steps, error, result>>

\* one iteration of `for filter_c in filters`: extend conditions, or let the
\* exception of get_conditions_from_dict through
GetFiltersStep ==
    /\ pc = "loop"
    /\ idx <= Len(filters.d)
    /\ LET r == FilterStep(filters, idx, with_optional)
       IN  IF r.err # "none"
           THEN /\ pc' = "raised"
                /\ error' = r.err
                /\ UNCHANGED <<idx, conditions>>
           ELSE /\ conditions' = conditions \o r.conditions
                /\ idx' = idx + 1
                /\ UNCHANGED <<pc, error>>
    /\ UNCHANGED <<args, facade, stmt, steps, result>>

\* `return conditions`
GetFiltersReturn ==
    /\ pc = "loop"
    /\ idx > Len(filters.d)
    /\ pc' = "returned"
    /\ UNCHANGED <<args, facade, idx, conditions, stmt, steps, error, result>>

NextFilters ==
    \/ GetFiltersNone
    \/ GetFiltersRaise
    \/ GetFiltersEnter
    \/ GetFiltersStep
    \/ GetFiltersReturn

SpecFilters == InitFilters /\ [][NextFilters]_vars

-----------------------------------------------------------------------------
(* _select_all_stmt: build_select_stmt call by call, then session.execute. *)

\* operator entries of the two filter expressions of one call together
MaxStmtEntries == 2

\* the (filters, optional_filters) of a call on Address; each is None, a
\* non-mapping or a filter dict
StmtFilterPairs ==
    LET dicts(n) == {PyDict(d) : d \in ExprsOfSize("Address", n)}
    IN  UNION {dicts(nm[1]) \X dicts(nm[2]) :
                 nm \in {x \in (0..MaxStmtEntries) \X (0..MaxStmtEntries) :
                           x[1] + x[2] <= MaxStmtEntries}}
        \cup ({None, PyList(<<>>)} \X {None, PyList(<<>>)})

StmtOptions ==
    {None,
     PyDict(<<Item(Address_city, RelationshipOption("JOINED", None, None))>>)}

StmtOrderings ==
    {<<None, None>>,
     <<PyName("zip_code"), PyName("desc")>>,
     <<PyList(<<PyName("zip_code"), PyName("id")>>), PyName("asc")>>}

Init ==
    /\ pc = "build"
    /\ \E p \in StmtFilterPairs : filters = p[1] /\ optional_filters = p[2]
    /\ with_optional = FALSE
    /\ relationship_options \in StmtOptions
    /\ group_by \in {None, Address_zip_code}
    /\ \E o \in StmtOrderings : order_by = o[1] /\ direction = o[2]
    /\ limit \in {None, PyInt(1)}
    /\ idx = 1
    /\ conditions = <<>>
    /\ stmt = Select("Address")
    /\ steps = <<>>
    /\ error = "none"
    /\ result = NoResult
    /\ call = NoCall
    /\ log = <<>>
    /\ table = Users
    /\ ret = NoResult

\* r is what a call of build_select_stmt gave
Stepped(r) ==
    IF r.err # "none"
    THEN /\ pc' = "raised"
         /\ error' = r.err
         /\ UNCHANGED <<stmt, idx>>
    ELSE /\ stmt' = r.stmt
         /\ idx' = idx + 1
         /\ UNCHANGED <<pc, error>>

\* the next call of build_select_stmt, when it is `step`: the statement is
\* replaced by the one returned, or the exception ends the call
Step(step) ==
    /\ idx <= Len(BuildSteps)
    /\ BuildSteps[idx] = step
    /\ steps' = Append(steps, step)
    /\ Stepped(BuildStep(step, stmt, stmt.model, filters, optional_filters,
                         relationship_options, group_by, order_by, direction,
                         limit))
    /\ UNCHANGED <<args, facade, conditions, result>>

ApplyRelationshipOptions == pc = "build" /\ Step("apply_relationship_options")
ApplyFilters == pc = "build" /\ Step("apply_filters")
ApplyOptionalFilters == pc = "build" /\ Step("apply_optional_filters")
ApplyGroupBy == pc = "build" /\ Step("apply_group_by")
ApplyOrderBy == pc = "build" /\ Step("apply_order_by")
ApplyLimit == pc = "build" /\ Step("apply_limit")

\* `return session.execute(stmt).unique().scalars().all()`
ExecuteStmt ==
    /\ pc = "build"
    /\ idx > Len(BuildSteps)
    /\ result' = Execute(stmt)
    /\ pc' = "done"
    /\ UNCHANGED <<args, facade, idx, conditions, stmt, steps, error>>

Next ==
    \/ ApplyRelationshipOptions
    \/ ApplyFilters
    \/ ApplyOptionalFilters
    \/ ApplyGroupBy
    \/ ApplyOrderBy
    \/ ApplyLimit
    \/ ExecuteStmt

Spec == Init /\ [][Next]_vars

-----------------------------------------------------------------------------
(* _select_all_stmt of Address with an ordering and nothing else.          *)

\* fields of an order_by list, directions of a direction list
MaxOrderLen == 2

\* a str, or a list of up to MaxOrderLen of them, or None
StrOrList(names) ==
    {None} \cup {PyName(n) : n \in names}
    \cup {PyList(l) : l \in UNION {[1..m -> {PyName(n) : n \in names}] :
                                    m \in 0..MaxOrderLen}}

OrderBys == StrOrList({"zip_code", "id", "nope"})
Directions == StrOrList({"asc", "desc", "ASC"})

InitOrder ==
    /\ pc = "build"
    /\ filters = None
    /\ optional_filters = None
    /\ with_optional = FALSE
    /\ relationship_options = None
    /\ group_by = None
    /\ order_by \in OrderBys
    /\ direction \in Directions
    /\ limit = None
    /\ idx = 1
    /\ conditions = <<>>
    /\ stmt = Select("Address")
    /\ steps = <<>>
    /\ error = "none"
    /\ result = NoResult
    /\ call = NoCall
    /\ log = <<>>
    /\ table = Users
    /\ ret = NoResult

SpecOrder == InitOrder /\ [][Next]_vars

-----------------------------------------------------------------------------
(* _select_all_stmt of User with relationship options: the trees of        *)
(* User.addresses and, below it, Address.city.                             *)

\* the extra conditions of a join on the addresses
ZipCriteria == PyList(<<Binary("in", Address_zip_code, PyList(<<PyInt(1)>>))>>)

\* the options of Address.city: of every technique, and one whose lazy is the
\* value "other", no member of LoadingTechnique
CityOptions ==
    {RelationshipOption(lazy, criteria, None) :
        lazy \in LoadingTechniques \cup {"other"}, criteria \in {None, ZipCriteria}}

\* entries the loop has to skip
SkippedEntries ==
    {Item(None, RelationshipOption("JOINED", None, None)),
     Item(PyName("addresses"), RelationshipOption("JOINED", None, None))}

\* a mapping with the entry of key and option, alone or beside an entry to
\* skip, or with a value that is no option
OptionDicts(key, options) ==
    {None, PyDict(<<>>), PyDict(<<Item(key, None)>>), PyDict(<<Item(key, PyInt(1))>>)}
    \cup {PyDict(<<Item(key, o)>>) : o \in options}
    \cup {PyDict(<<e, Item(key, o)>>) : e \in SkippedEntries, o \in options}
    \cup {PyDict(<<Item(key, o), e>>) : e \in SkippedEntries, o \in options}

AddressesOptions ==
    {RelationshipOption(lazy, criteria, children) :
        lazy \in {"JOINED", "NOLOAD", "other"}, criteria \in {None, ZipCriteria},
        children \in OptionDicts(Address_city, CityOptions)}

OptionTrees == OptionDicts(User_addresses, AddressesOptions)

InitOptions ==
    /\ pc = "build"
    /\ filters = None
    /\ optional_filters = None
    /\ with_optional = FALSE
    /\ relationship_options \in OptionTrees
    /\ group_by = None
    /\ order_by = None
    /\ direction = None
    /\ limit = None
    /\ idx = 1
    /\ conditions = <<>>
    /\ stmt = Select("User")
    /\ steps = <<>>
    /\ error = "none"
    /\ result = NoResult
    /\ call = NoCall
    /\ log = <<>>
    /\ table = Users
    /\ ret = NoResult

SpecOptions == InitOptions /\ [][Next]_vars

-----------------------------------------------------------------------------
(* _select_paginate_stmt of User: build, paginate, execute.                *)

\* the largest page and the largest page size asked for
MaxPage == 3
MaxPerPage == 2

\* the largest limit asked for
MaxLimit == 2

IntOrNone(n) == {None} \cup {PyInt(j) : j \in 1..n}

\* filters matching 0, 1, 2, 3 and (None) all 4 users
PaginateFilters ==
    {None}
    \cup {OneEntry(User_id, "IN", PyList([j \in 1..n |-> PyInt(j)])) : n \in 0..3}

PaginateCalls ==
    {[op |-> "_select_paginate_stmt", kind |-> k, page |-> pg, per_page |-> pp] :
        k \in {"sync", "async"}, pg \in IntOrNone(MaxPage),
        pp \in IntOrNone(MaxPerPage)}

InitPaginate ==
    /\ pc = "select_paginate"
    /\ filters \in PaginateFilters
    /\ optional_filters = None
    /\ with_optional = FALSE
    /\ relationship_options = None
    /\ group_by = None
    /\ order_by = None
    /\ direction = None
    /\ limit \in IntOrNone(MaxLimit)
    /\ idx = 0
    /\ conditions = <<>>
    /\ stmt = Select("User")
    /\ steps = <<>>
    /\ error = "none"
    /\ result = NoResult
    /\ call \in PaginateCalls
    /\ log = <<>>
    /\ table = Users
    /\ ret = NoResult

\* `stmt = _build_select_stmt(...)`
PaginateBuild ==
    /\ pc = "select_paginate"
    /\ stmt' = build_select_stmt(stmt, stmt.model, filters, optional_filters,
                                 relationship_options, group_by, order_by,
                                 direction, limit).stmt
    /\ pc' = "apply_pagination"
    /\ UNCHANGED <<args, idx, conditions, steps, error, result, facade>>

\* `stmt, pagination = ...`: r is what the call gave
PaginationApplied(r) ==
    /\ stmt' = r.stmt
    /\ ret' = [t |-> "pending", pagination |-> r.pagination]
    /\ log' = IF r.counted THEN Append(log, "count") ELSE log

\* `stmt, pagination = _apply_pagination(session, stmt, page, per_page)`
ApplyPagination ==
    /\ pc = "apply_pagination"
    /\ call.kind = "sync"
    /\ PaginationApplied(apply_pagination(table, stmt, call.page, call.per_page))
    /\ pc' = "execute_page"
    /\ UNCHANGED <<args, idx, conditions, steps, error, result, call, table>>

\* `stmt, pagination = await _async_apply_pagination(...)`
AsyncApplyPagination ==
    /\ pc = "apply_pagination"
    /\ call.kind = "async"
    /\ PaginationApplied(async_apply_pagination(table, stmt, call.page,
                                                call.per_page))
    /\ pc' = "execute_page"
    /\ UNCHANGED <<args, idx, conditions, steps, error, result, call, table>>

\* `return session.execute(stmt).unique().scalars().all(), pagination`
PaginateExecute ==
    /\ pc = "execute_page"
    /\ log' = Append(log, "execute")
    /\ result' = ExecuteOn(table, stmt)
    /\ ret' = [t |-> "tuple", rows |-> ExecuteOn(table, stmt),
               pagination |-> ret.pagination]
    /\ pc' = "done"
    /\ UNCHANGED <<args, idx, conditions, stmt, steps, error, call, table>>

NextPaginate ==
    \/ PaginateBuild
    \/ ApplyPagination
    \/ AsyncApplyPagination
    \/ PaginateExecute

SpecPaginate == InitPaginate /\ [][NextPaginate]_vars

-----------------------------------------------------------------------------
(* The decorators of the facade methods.                                   *)

\* a keyword argument the caller did not pass
Missing == [t |-> "missing"]

\* check_values(as_list=False): the exception raised, or "none"
DictCheck(v) ==
    IF \/ v = None
       \/ v.t # "dict"
       \/ Len(v.d) = 0
       \/ \E j \in 1..Len(v.d) : v.d[j].key.t # "str"
    THEN "TypeError" ELSE "none"

RECURSIVE ItemsCheck(_, _)
\* the generator of `all(isinstance(item, dict) and isinstance(key, str)
\* for item in values_attr for key in item.keys())` from item j on:
\* item.keys() is called on each item before anything is tested
ItemsCheck(items, j) ==
    IF j > Len(items) THEN "none"
    ELSE IF items[j].t # "dict" THEN "AttributeError"
    ELSE IF \E n \in 1..Len(items[j].d) : items[j].d[n].key.t # "str"
         THEN "TypeError"
    ELSE ItemsCheck(items, j + 1)

\* check_values(as_list=True): the exception raised, or "none"
ListCheck(v) ==
    IF v = None \/ v.t # "list" \/ Len(v.l) = 0 THEN "TypeError"
    ELSE ItemsCheck(v.l, 1)

\* the wrapper of check_values on `kwargs.get("values", None)`
check_values(as_list, values) ==
    IF as_list THEN ListCheck(IF values = Missing THEN None ELSE values)
    ELSE DictCheck(IF values = Missing THEN None ELSE values)

-----------------------------------------------------------------------------
(* The statements of the mutating operations and what the engine does with *)
(* them.                                                                   *)

\* update(model), insert(model), delete(model)
Dml(kind, model) ==
    [t |-> kind, model |-> model, where |-> <<>>, values |-> None,
     returning |-> None]

\* apply_filters(update(model), filters).values(values).returning(model)
build_update_stmt(model, values, f) ==
    [apply_filters(Dml("update", model), f, FALSE).stmt
        EXCEPT !.values = values, !.returning = model]

\* insert(model).returning(model)
build_insert_stmt(model) == [Dml("insert", model) EXCEPT !.returning = model]

\* apply_filters(delete(model), filters).returning(model)
build_delete_stmt(model, f) ==
    [apply_filters(Dml("delete", model), f, FALSE).stmt
        EXCEPT !.returning = model]

\* a row with the columns of d set
SetValues(row, d) ==
    [f \in DOMAIN row |->
        IF \E j \in 1..Len(d) : d[j].key = PyName(f)
        THEN (CHOOSE x \in {d[j].value : j \in {n \in 1..Len(d) : d[n].key = PyName(f)}} : TRUE)
        ELSE row[f]]

\* the rows an INSERT of the parameter sets adds, the first with id n
Inserted(params, n) ==
    [j \in 1..Len(params) |->
        SetValues(UserRow(n + j - 1, None, <<>>), params[j].d)]

\* the rows of RETURNING: the rows inserted, updated or deleted
Returned(rows, s, params) ==
    CASE s.t = "insert" -> Inserted(params, Len(rows) + 1)
      [] s.t = "update" ->
            [j \in 1..Len(SelectedFrom(rows, s)) |->
                SetValues(SelectedFrom(rows, s)[j], s.values.d)]
      [] s.t = "delete" -> SelectedFrom(rows, s)

\* the rows of the table after the statement
Stored(rows, s, params) ==
    CASE s.t = "insert" -> rows \o Inserted(params, Len(rows) + 1)
      [] s.t = "update" ->
            [j \in 1..Len(rows) |->
                IF \A n \in 1..Len(s.where) : Eval(s.where[n], rows[j]) = "T"
                THEN SetValues(rows[j], s.values.d) ELSE rows[j]]
      [] s.t = "delete" ->
            SelectSeq(rows, LAMBDA row :
                ~ \A n \in 1..Len(s.where) : Eval(s.where[n], row) = "T")

-----------------------------------------------------------------------------
(* The facade methods of Repository and AsyncRepository on USER, under     *)
(* check_values, with_session / with_async_session and the session_factory *)
(* of the database.                                                        *)

\* the largest number of rows a filter on the id of a call matches
MaxMatched == 2

\* a Session (an AsyncSession for the asynchronous methods)
Session == [t |-> "Session"]

DelegatingOps == {"_select", "_select_all", "_select_paginate"}
SelectOps == {"_select_stmt", "_select_all_stmt", "_select_paginate_stmt"}
CheckedOps == {"_update_all", "_update", "_add_all", "_add"}
MutatingOps == CheckedOps \cup {"_delete_all", "_delete"}

\* the statement a delegating method hands on
StmtOp(op) ==
    CASE op = "_select" -> "_select_stmt"
      [] op = "_select_all" -> "_select_all_stmt"
      [] op = "_select_paginate" -> "_select_paginate_stmt"

\* filters on the id matching 0 .. MaxMatched users
FacadeFilters ==
    {OneEntry(User_id, "IN", PyList([j \in 1..n |-> PyInt(j)])) : n \in 0..MaxMatched}

\* no filters, an empty mapping, and a column without any operator
NoFilters == {None, PyDict(<<>>), PyDict(<<Item(User_id, PyDict(<<>>))>>)}

NewEmail == Item(PyName("email"), PyStr(<<"b">>))

\* values payloads for a method taking one dict
DictPayloads ==
    {Missing, None, PyList(<<PyDict(<<NewEmail>>)>>), PyDict(<<>>),
     PyDict(<<Item(PyInt(1), PyStr(<<"b">>))>>), PyDict(<<NewEmail>>)}

\* values payloads for _add_all
ListPayloads ==
    {Missing, None, PyDict(<<NewEmail>>), PyList(<<>>)}
    \cup {PyList(l) : l \in
            {<<PyDict(<<NewEmail>>)>>,
             <<PyDict(<<NewEmail>>), PyDict(<<NewEmail>>)>>,
             <<PyDict(<<>>)>>,
             <<PyInt(1)>>,
             <<PyDict(<<Item(PyInt(1), PyStr(<<"b">>))>>)>>,
             <<PyDict(<<NewEmail>>), PyInt(1)>>}}

\* the arguments a method takes besides self and session
Arguments ==
    [op : DelegatingOps, values : {Missing}, f : FacadeFilters,
     flush : {FALSE}, commit : {FALSE}]
    \cup [op : {"_update_all", "_update"}, values : DictPayloads,
          f : FacadeFilters \cup NoFilters, flush : BOOLEAN, commit : BOOLEAN]
    \cup [op : {"_add"}, values : DictPayloads, f : {None},
          flush : BOOLEAN, commit : BOOLEAN]
    \cup [op : {"_add_all"}, values : ListPayloads, f : {None},
          flush : BOOLEAN, commit : BOOLEAN]
    \cup [op : {"_delete_all", "_delete"}, values : {Missing},
          f : FacadeFilters \cup NoFilters, flush : BOOLEAN, commit : BOOLEAN]

\* how the method is called: self is the first positional argument (a bound
\* call) or a keyword argument; of which class self is; what is passed as
\* session
Callers ==
    [kind : {"sync", "async"}, self_by : {"position", "keyword"},
     receiver : {"Repository", "Other"},
     session : {None, Session, PyInt(1)}]

FacadeCalls ==
    {[op |-> a.op, values |-> a.values, flush |-> a.flush, commit |-> a.commit,
      kind |-> c.kind, self_by |-> c.self_by, receiver |-> c.receiver,
      session |-> c.session, owned |-> FALSE, depth |-> 0,
      page |-> PyInt(1), per_page |-> PyInt(2), f |-> a.f] :
        a \in Arguments, c \in Callers}

InitFacade ==
    /\ call \in FacadeCalls
    /\ pc = IF call.op \in CheckedOps THEN "check_values" ELSE "with_session"
    /\ filters = call.f
    /\ optional_filters = None
    /\ with_optional = FALSE
    /\ relationship_options = None
    /\ group_by = None
    /\ order_by = None
    /\ direction = None
    /\ limit = None
    /\ idx = 0
    /\ conditions = <<>>
    /\ stmt = Select("User")
    /\ steps = <<>>
    /\ error = "none"
    /\ result = NoResult
    /\ log = <<>>
    /\ table = Users
    /\ ret = NoResult

\* where control goes when the method (or a decorator) returns or raises:
\* into the exit of the `with` block if the decorator opened one
Left(c) == IF c.owned THEN "exit" ELSE "done"

\* the wrapper of check_values: it passes self on as a positional argument
CheckValues ==
    /\ pc = "check_values"
    /\ error' = check_values(call.op = "_add_all", call.values)
    /\ pc' = IF error' = "none" THEN "with_session" ELSE "done"
    /\ call' = [call EXCEPT !.self_by = "position"]
    /\ UNCHANGED <<args, idx, conditions, stmt, steps, result, log, table, ret>>

\* a session acquired whether or not the caller gave one
Wrapped_Acquiring(self) ==
    IF self # "Repository" \/ call.session \notin {None, Session}
    THEN /\ error' = "TypeError"
         /\ pc' = Left(call)
         /\ UNCHANGED <<call, log>>
    ELSE /\ log' = Append(log, "acquire")
         /\ call' = [call EXCEPT !.session = Session, !.owned = TRUE]
         /\ pc' = "body"
         /\ UNCHANGED error

\* the wrapper of a session decorator, self being what the wrapper took for
\* the receiver
Wrapped(self) ==
    IF self # "Repository"
    THEN /\ error' = "TypeError"
         /\ pc' = Left(call)
         /\ UNCHANGED <<call, log>>
    ELSE IF call.session = None
    THEN /\ log' = Append(log, "acquire")
         /\ call' = [call EXCEPT !.session = Session, !.owned = TRUE]
         /\ pc' = "body"
         /\ UNCHANGED error
    ELSE IF call.session # Session
    THEN /\ error' = "TypeError"
         /\ pc' = Left(call)
         /\ UNCHANGED <<call, log>>
    ELSE /\ pc' = "body"
         /\ UNCHANGED <<call, log, error>>

\* with_session: `def wrapper(self, *args, **kwargs)`
WithSession ==
    /\ pc = "with_session"
    /\ call.kind = "sync"
    /\ Wrapped(call.receiver)
    /\ UNCHANGED <<args, idx, conditions, stmt, steps, result, table, ret>>

\* with_async_session: `self = kwargs.get("self")`
WithAsyncSession ==
    /\ pc = "with_session"
    /\ call.kind = "async"
    /\ Wrapped(IF call.self_by = "keyword" THEN call.receiver ELSE "NoneType")
    /\ UNCHANGED <<args, idx, conditions, stmt, steps, result, table, ret>>

\* _select, _select_all, _select_paginate:
\* `return self._select_stmt(stmt=stmt, ..., session=session)`
Delegate ==
    /\ pc = "body"
    /\ call.op \in DelegatingOps
    /\ call' = [call EXCEPT !.op = StmtOp(call.op), !.self_by = "position",
                            !.depth = @ + 1]
    /\ pc' = "with_session"
    /\ UNCHANGED <<args, idx, conditions, stmt, steps, error, result, log,
                   table, ret>>

\* the rows fetched by a *_stmt method, after the interactions of prefix
Fetched(prefix, s, pagination) ==
    /\ log' = log \o prefix \o <<"execute">>
    /\ stmt' = s
    /\ result' = ExecuteOn(table, s)
    /\ IF call.op = "_select_stmt" /\ Len(result') > 1
       THEN error' = "MultipleResultsFound" /\ UNCHANGED ret
       ELSE /\ UNCHANGED error
            /\ ret' = CASE call.op = "_select_stmt" ->
                             IF result' = <<>> THEN None
                             ELSE [t |-> "entity", row |-> result'[1]]
                        [] call.op = "_select_all_stmt" ->
                             [t |-> "rows", rows |-> result']
                        [] call.op = "_select_paginate_stmt" ->
                             [t |-> "tuple", rows |-> result',
                              pagination |-> pagination]

\* the same through apply_pagination, r being what it gave
FetchedPage(r) ==
    Fetched(IF r.counted THEN <<"count">> ELSE <<>>, r.stmt, r.pagination)

\* _select_stmt, _select_all_stmt, _select_paginate_stmt
FacadeSelect ==
    /\ pc = "body"
    /\ call.op \in SelectOps
    /\ IF call.op = "_select_paginate_stmt"
       THEN FetchedPage(
              IF call.kind = "sync"
              THEN apply_pagination(table,
                     build_select_stmt(stmt, stmt.model, filters, None, None,
                                       None, None, None, None).stmt,
                     call.page, call.per_page)
              ELSE async_apply_pagination(table,
                     build_select_stmt(stmt, stmt.model, filters, None, None,
                                       None, None, None, None).stmt,
                     call.page, call.per_page))
       ELSE Fetched(<<>>,
                    build_select_stmt(stmt, stmt.model, filters, None, None,
                                      None, None, None, None).stmt,
                    None)
    /\ pc' = Left(call)
    /\ UNCHANGED <<args, idx, conditions, steps, call, table>>

\* the statement of a mutating method
MutatingStmt(c, f) ==
    CASE c.op \in {"_update_all", "_update"} ->
            build_update_stmt("User", c.values, f)
      [] c.op \in {"_add_all", "_add"} -> build_insert_stmt("User")
      [] c.op \in {"_delete_all", "_delete"} -> build_delete_stmt("User", f)

\* the parameter sets session.execute is given with the statement
Parameters(c) ==
    CASE c.op = "_add_all" -> c.values.l
      [] c.op = "_add" -> <<c.values>>
      [] OTHER -> <<>>

\* the step after `at` in `if flush: ...; if commit: ...; refresh`, for a
\* method that affected n rows
Refreshing_Never(c, at, n) ==
    CASE at = "execute" /\ c.flush -> "flush"
      [] at \in {"execute", "flush"} /\ c.commit -> "commit"
      [] OTHER -> "return"

\* every method refreshes only after a flush or a commit
Refreshing_WhenSaved(c, at, n) ==
    CASE at = "execute" /\ c.flush -> "flush"
      [] at \in {"execute", "flush"} /\ c.commit -> "commit"
      [] at # "refresh" /\ n > 0 /\ c.op \in CheckedOps
            /\ (c.flush \/ c.commit) -> "refresh"
      [] OTHER -> "return"

Refreshing(c, at, n) ==
    CASE at = "execute" /\ c.flush -> "flush"
      [] at \in {"execute", "flush"} /\ c.commit -> "commit"
      [] at # "refresh" /\ n > 0 /\ c.op \in {"_update_all", "_update"} -> "refresh"
      [] at # "refresh" /\ n > 0 /\ c.op \in {"_add_all", "_add"}
            /\ (c.flush \/ c.commit) -> "refresh"
      [] OTHER -> "return"

\* an empty sequence reported as a success
Executed_Found(sequence) ==
    /\ result' = sequence
    /\ IF call.op \in {"_update", "_delete"} /\ Len(sequence) > 1
       THEN /\ error' = "MultipleResultsFound"
            /\ pc' = Left(call)
            /\ UNCHANGED ret
       ELSE IF call.op \in {"_update", "_delete", "_delete_all"} /\ Len(sequence) = 0
       THEN /\ ret' = IF call.op = "_update" THEN None
                      ELSE [t |-> "bool", b |-> TRUE]
            /\ pc' = Left(call)
            /\ UNCHANGED error
       ELSE /\ pc' = Refreshing(call, "execute", Len(sequence))
            /\ UNCHANGED <<error, ret>>

\* the first of several rows taken as the one row
Executed_First(sequence) ==
    /\ result' = sequence
    /\ IF call.op \in {"_update", "_delete", "_delete_all"} /\ Len(sequence) = 0
       THEN /\ ret' = IF call.op = "_update" THEN None
                      ELSE [t |-> "bool", b |-> FALSE]
            /\ pc' = Left(call)
            /\ UNCHANGED error
       ELSE /\ pc' = Refreshing(call, "execute", Len(sequence))
            /\ UNCHANGED <<error, ret>>

\* what follows `session.execute(stmt)` when it gave the rows of sequence
Executed(sequence) ==
    /\ result' = sequence
    /\ IF call.op \in {"_update", "_delete"} /\ Len(sequence) > 1
       THEN /\ error' = "MultipleResultsFound"
            /\ pc' = Left(call)
            /\ UNCHANGED ret
       ELSE IF call.op \in {"_update", "_delete", "_delete_all"} /\ Len(sequence) = 0
       THEN /\ ret' = IF call.op = "_update" THEN None
                      ELSE [t |-> "bool", b |-> FALSE]
            /\ pc' = Left(call)
            /\ UNCHANGED error
       ELSE /\ pc' = Refreshing(call, "execute", Len(sequence))
            /\ UNCHANGED <<error, ret>>

\* `session.execute(stmt)` of a mutating method (the test of values that
\* Repository._update_all makes first repeats check_values, which has passed)
FacadeExecute ==
    /\ pc = "body"
    /\ call.op \in MutatingOps
    /\ stmt' = MutatingStmt(call, filters)
    /\ log' = Append(log, "execute")
    /\ table' = Stored(table, stmt', Parameters(call))
    /\ Executed(Returned(table, stmt', Parameters(call)))
    /\ idx' = 0
    /\ UNCHANGED <<args, conditions, steps, call>>

\* `if flush: session.flush()`
FacadeFlush ==
    /\ pc = "flush"
    /\ log' = Append(log, "flush")
    /\ pc' = Refreshing(call, "flush", Len(result))
    /\ UNCHANGED <<args, idx, conditions, stmt, steps, error, result, call,
                   table, ret>>

\* `if commit: session.commit()`
FacadeCommit ==
    /\ pc = "commit"
    /\ log' = Append(log, "commit")
    /\ pc' = Refreshing(call, "commit", Len(result))
    /\ UNCHANGED <<args, idx, conditions, stmt, steps, error, result, call,
                   table, ret>>

\* `session.refresh(item)`, one item of the sequence after the other
FacadeRefresh ==
    /\ pc = "refresh"
    /\ idx' = idx + 1
    /\ log' = Append(log, "refresh")
    /\ pc' = IF idx' < Len(result) THEN "refresh"
             ELSE Refreshing(call, "refresh", Len(result))
    /\ UNCHANGED <<args, conditions, stmt, steps, error, result, call, table,
                   ret>>

\* the return statement of a mutating method
FacadeReturn ==
    /\ pc = "return"
    /\ ret' = CASE call.op \in {"_update_all", "_add_all"} ->
                     [t |-> "rows", rows |-> result]
                [] call.op \in {"_update", "_add"} ->
                     [t |-> "entity", row |-> result[1]]
                [] call.op \in {"_delete_all", "_delete"} ->
                     [t |-> "bool", b |-> TRUE]
    /\ pc' = Left(call)
    /\ UNCHANGED <<args, idx, conditions, stmt, steps, error, result, call,
                   log, table>>

\* the exceptions that are no Exception: `except Exception` lets them pass
Signals == {"KeyboardInterrupt", "CancelledError"}

\* the method is interrupted between two of its statements: by
\* KeyboardInterrupt, or, waiting for the session in a coroutine, by the
\* CancelledError of a cancelled task
Interrupted ==
    /\ pc \in {"body", "flush", "commit", "refresh", "return"}
    /\ error' = IF call.kind = "sync" THEN "KeyboardInterrupt" ELSE "CancelledError"
    /\ pc' = Left(call)
    /\ UNCHANGED <<args, idx, conditions, stmt, steps, result, call, log,
                   table, ret>>

\* session_factory, `except Exception as ex`: log, roll back, raise again.
\* What was not committed is gone from the table.
SessionRollback ==
    /\ pc = "exit"
    /\ error \notin {"none"} \cup Signals
    /\ log' = log \o <<"error", "rollback">>
    /\ table' = IF \E j \in 1..Len(log) : log[j] = "commit" THEN table ELSE Users
    /\ pc' = "finally"
    /\ UNCHANGED <<args, idx, conditions, stmt, steps, error, result, call, ret>>

\* session_factory, `finally: session.close()`
SessionClose ==
    /\ \/ pc = "exit" /\ error \in {"none"} \cup Signals
       \/ pc = "finally"
    /\ log' = Append(log, "close")
    /\ pc' = "done"
    /\ UNCHANGED <<args, idx, conditions, stmt, steps, error, result, call,
                   table, ret>>

NextFacade ==
    \/ CheckValues
    \/ WithSession
    \/ WithAsyncSession
    \/ Delegate
    \/ FacadeSelect
    \/ FacadeExecute
    \/ FacadeFlush
    \/ FacadeCommit
    \/ FacadeRefresh
    \/ FacadeReturn
    \/ Interrupted
    \/ SessionRollback
    \/ SessionClose

SpecFacade == InitFacade /\ [][NextFacade]_vars

-----------------------------------------------------------------------------
(* Call chains running at the same time on one Repository, each calling a  *)
(* method under with_session without a session.  Here pc, call and error   *)
(* hold one value per chain, result the sessions the sessionmaker has      *)
(* made, and log the chain and the session of each interaction.            *)

\* the number of call chains
MaxChains == 2

Chains == 1..MaxChains

InitChains ==
    /\ pc = [c \in Chains |-> "with_session"]
    /\ call = [c \in Chains |-> [op |-> "_select_all", session |-> None]]
    /\ error = [c \in Chains |-> "none"]
    /\ result = <<>>
    /\ log = <<>>
    /\ filters = None
    /\ optional_filters = None
    /\ with_optional = FALSE
    /\ relationship_options = None
    /\ group_by = None
    /\ order_by = None
    /\ direction = None
    /\ limit = None
    /\ idx = 0
    /\ conditions = <<>>
    /\ stmt = Select("User")
    /\ steps = <<>>
    /\ table = Users
    /\ ret = NoResult

\* the session every chain works on is the one made last
SessionOf_Shared(c) == Len(result)

\* `kwargs[param_session]` of the call of chain c
SessionOf(c) == call[c].session

\* `with self.session_manager() as session: kwargs[param_session] = session`:
\* the sessionmaker of the database makes a Session
ChainAcquire ==
    \E c \in Chains :
        /\ pc[c] = "with_session"
        /\ call[c].session = None
        /\ result' = Append(result, [state |-> "open", executed |-> 0,
                                     rolled_back |-> FALSE])
        /\ call' = [call EXCEPT ![c].session = Len(result) + 1]
        /\ log' = Append(log, [chain |-> c, session |-> Len(result) + 1,
                               did |-> "acquire"])
        /\ pc' = [pc EXCEPT ![c] = "body"]
        /\ UNCHANGED <<args, idx, conditions, stmt, steps, error, table, ret>>

\* `session.execute(stmt)` in the method, which then returns, or raises
ChainExecute ==
    \E c \in Chains, raised \in {"none", "MultipleResultsFound"} :
        /\ pc[c] = "body"
        /\ result' = [result EXCEPT ![SessionOf(c)].executed = @ + 1]
        /\ log' = Append(log, [chain |-> c, session |-> SessionOf(c),
                               did |-> "execute"])
        /\ error' = [error EXCEPT ![c] = raised]
        /\ pc' = [pc EXCEPT ![c] = "exit"]
        /\ UNCHANGED <<args, idx, conditions, stmt, steps, call, table, ret>>

\* session_factory, `except Exception`: `session.rollback()`
ChainRollback ==
    \E c \in Chains :
        /\ pc[c] = "exit"
        /\ error[c] # "none"
        /\ result' = [result EXCEPT ![SessionOf(c)].rolled_back = TRUE]
        /\ log' = Append(log, [chain |-> c, session |-> SessionOf(c),
                               did |-> "rollback"])
        /\ pc' = [pc EXCEPT ![c] = "finally"]
        /\ UNCHANGED <<args, idx, conditions, stmt, steps, error, call, table,
                       ret>>

\* session_factory, `finally: session.close()`
ChainClose ==
    \E c \in Chains :
        /\ \/ pc[c] = "exit" /\ error[c] = "none"
           \/ pc[c] = "finally"
        /\ result' = [result EXCEPT ![SessionOf(c)].state = "closed"]
        /\ log' = Append(log, [chain |-> c, session |-> SessionOf(c),
                               did |-> "close"])
        /\ pc' = [pc EXCEPT ![c] = "done"]
        /\ UNCHANGED <<args, idx, conditions, stmt, steps, error, call, table,
                       ret>>

NextChains == ChainAcquire \/ ChainExecute \/ ChainRollback \/ ChainClose

SpecChains == InitChains /\ [][NextChains]_vars

-----------------------------------------------------------------------------
(* apply_relationship_options call by call.  The RelationshipOption        *)
(* objects are numbered, so that the children of one can hold an object    *)
(* that is already on the way down; relationship_options holds the mapping *)
(* passed and the children of every object, steps the frames of the calls  *)
(* in progress, result the directives attached.                            *)

\* the number of RelationshipOption objects
MaxNodes == 2

\* the recursion limit of the interpreter, above the depth of every tree
\* without a cycle that MaxNodes objects make
RecursionLimit == MaxNodes + 2

Nodes == 1..MaxNodes

\* an entry of a mapping: the key is an attribute or None, the value an
\* option object or None (0)
WalkEntries ==
    {[key |-> "None", value |-> 1]}
        \cup {[key |-> "attr", value |-> v] : v \in 0..MaxNodes}

InitWalk ==
    /\ relationship_options \in
           [root : {<<>>} \cup {<<e>> : e \in WalkEntries}
                       \cup {<<e, f>> : e, f \in WalkEntries},
            children : [Nodes -> {<<>>} \cup {<<e>> : e \in WalkEntries}]]
    /\ steps = <<[items |-> relationship_options.root, j |-> 1, parents |-> 0]>>
    /\ pc = "walk"
    /\ result = <<>>
    /\ error = "none"
    /\ filters = None
    /\ optional_filters = None
    /\ with_optional = FALSE
    /\ group_by = None
    /\ order_by = None
    /\ direction = None
    /\ limit = None
    /\ idx = 0
    /\ conditions = <<>>
    /\ stmt = Select("User")
    /\ call = NoCall
    /\ log = <<>>
    /\ table = Users
    /\ ret = NoResult

\* the frame of the innermost call
Frame == steps[Len(steps)]

\* the entry the loop of the innermost call is at
Entry == Frame.items[Frame.j]

\* `relationship is None or not isinstance(...) or sub_relationships is None
\* or not isinstance(...)`
WalkSkipped(e) == e.key = "None" \/ e.value = 0

\* the children of every option are None
Children_None(n) == <<>>

\* `sub_relationships.children`, <<>> for None
Children(n) == relationship_options.children[n]

\* the loop of the caller moves to its next entry
Resumed(frames) ==
    IF frames = <<>> THEN frames
    ELSE [frames EXCEPT ![Len(frames)].j = @ + 1]

\* `continue`
WalkSkip ==
    /\ pc = "walk"
    /\ Frame.j <= Len(Frame.items)
    /\ WalkSkipped(Entry)
    /\ steps' = Resumed(steps)
    /\ UNCHANGED <<pc, args, idx, conditions, stmt, error, result, facade>>

\* `stmt = stmt.options(load)` and, when the children are not None, the call
\* on them with `parents=sub_items`
WalkVisit ==
    /\ pc = "walk"
    /\ Frame.j <= Len(Frame.items)
    /\ ~WalkSkipped(Entry)
    /\ Children(Entry.value) = <<>> \/ Len(steps) < RecursionLimit
    /\ result' = Append(result, [node |-> Entry.value,
                                 path |-> Frame.parents + 1])
    /\ steps' = IF Children(Entry.value) = <<>> THEN Resumed(steps)
                ELSE Append(steps, [items |-> Children(Entry.value), j |-> 1,
                                    parents |-> Frame.parents + 1])
    /\ UNCHANGED <<pc, args, idx, conditions, stmt, error, facade>>

\* the call that would exceed the recursion limit raises RecursionError,
\* which no frame catches
WalkOverflow ==
    /\ pc = "walk"
    /\ Frame.j <= Len(Frame.items)
    /\ ~WalkSkipped(Entry)
    /\ Children(Entry.value) # <<>>
    /\ Len(steps) >= RecursionLimit
    /\ error' = "RecursionError"
    /\ pc' = "raised"
    /\ steps' = <<>>
    /\ UNCHANGED <<args, idx, conditions, stmt, result, facade>>

\* `return stmt`
WalkReturn ==
    /\ pc = "walk"
    /\ Frame.j > Len(Frame.items)
    /\ steps' = Resumed(SubSeq(steps, 1, Len(steps) - 1))
    /\ pc' = IF Len(steps) = 1 THEN "done" ELSE "walk"
    /\ UNCHANGED <<args, idx, conditions, stmt, error, result, facade>>

NextWalk == WalkSkip \/ WalkVisit \/ WalkOverflow \/ WalkReturn

\* a call in progress goes on
SpecWalk == InitWalk /\ [][NextWalk]_vars /\ WF_vars(NextWalk)

-----------------------------------------------------------------------------
(* _select_all of User with one filter expression, required or optional.   *)

\* characters of a compared string or pattern, values of a membership list
MaxStrLen == 2
MaxListLen == 2

SeqsUpTo(S, n) == UNION {[1..m -> S] : m \in 0..n}

EmailValues == {PyStr(x) : x \in SeqsUpTo(Letters, MaxStrLen) \ {<<>>}} \cup {Null}
Patterns == {PyStr(x) : x \in SeqsUpTo(Letters \cup {"%"}, MaxStrLen)}
EmailLists ==
    {PyList(l) : l \in SeqsUpTo({PyStr(<<"a", "b">>), PyStr(<<"A", "B">>),
                                PyStr(<<"b", "A">>), Null}, MaxListLen)}
ZipLists == {PyList(l) : l \in SeqsUpTo({PyInt(1), PyInt(2), PyInt(3)}, MaxListLen)}

\* the sub-filters of ANY over the addresses
ZipFilters ==
    {PyDict(<<>>), PyInt(1),
     PyDict(<<Item(Address_zip_code, PyDict(<<Item("IN", None)>>))>>)}
    \cup {PyDict(<<Item(Address_zip_code, PyDict(<<Item(k, v)>>))>>) :
            k \in {"IN", "NOT_IN"}, v \in ZipLists}
    \cup {PyDict(<<Item(Address_zip_code,
                        PyDict(<<Item("IN", v), Item("NOT_IN", w)>>))>>) :
            v \in ZipLists, w \in ZipLists}

SelectFilters ==
    {OneEntry(User_email, k, v) :
        k \in {"EQUAL", "IEQUAL", "DIFFERENT", "IDIFFERENT"}, v \in EmailValues}
    \cup {OneEntry(User_email, k, v) :
            k \in {"LIKE", "ILIKE", "NOT_LIKE", "NOT_ILIKE"}, v \in Patterns}
    \cup {OneEntry(User_email, k, v) : k \in MembershipOps, v \in EmailLists}
    \cup {OneEntry(User_id, k, v) :
            k \in {"IN", "NOT_IN"}, v \in {PyInt(2), PyList(<<PyInt(1), PyInt(3)>>)}}
    \cup {OneEntry(User_addresses, "ANY", v) : v \in ZipFilters}

InitSelect ==
    /\ pc = "select_all"
    /\ \E p \in (SelectFilters \X {None}) \cup ({None} \X SelectFilters) :
          filters = p[1] /\ optional_filters = p[2]
    /\ with_optional = FALSE
    /\ relationship_options = None
    /\ group_by = None
    /\ order_by = None
    /\ direction = None
    /\ limit = None
    /\ idx = 0
    /\ conditions = <<>>
    /\ stmt = Select("User")
    /\ steps = <<>>
    /\ error = "none"
    /\ result = NoResult
    /\ call = NoCall
    /\ log = <<>>
    /\ table = Users
    /\ ret = NoResult

\* r is what _build_select_stmt gave
SelectBuilt(r) ==
    IF r.err # "none"
    THEN /\ pc' = "raised"
         /\ error' = r.err
         /\ UNCHANGED stmt
    ELSE /\ pc' = "execute"
         /\ stmt' = r.stmt
         /\ UNCHANGED error

\* `stmt = _build_select_stmt(...)`, the whole call
SelectBuild ==
    /\ pc = "select_all"
    /\ SelectBuilt(build_select_stmt(stmt, stmt.model, filters, optional_filters,
                                     relationship_options, group_by, order_by,
                                     direction, limit))
    /\ UNCHANGED <<args, facade, idx, conditions, steps, result>>

\* `return session.execute(stmt).unique().scalars().all()`
SelectExecute ==
    /\ pc = "execute"
    /\ result' = Execute(stmt)
    /\ pc' = "done"
    /\ UNCHANGED <<args, facade, idx, conditions, stmt, steps, error>>

NextSelect == SelectBuild \/ SelectExecute

SpecSelect == InitSelect /\ [][NextSelect]_vars

-----------------------------------------------------------------------------
(* What the claims speak of, stated on the filter expression itself.       *)

RECURSIVE AllEntries(_)
\* every operator entry of a filter expression, nested ones after their
\* HAS / ANY entry, in insertion order
AllEntries(f) ==
    IF f.t # "dict" THEN <<>>
    ELSE Concat([j \in 1..Len(f.d) |->
            IF f.d[j].value.t # "dict" THEN <<>>
            ELSE Concat([i \in 1..Len(f.d[j].value.d) |->
                    LET it == f.d[j].value.d[i]
                    IN  <<[key |-> f.d[j].key, op |-> it.key, value |-> it.value]>>
                        \o (IF it.key \in {"HAS", "ANY"}
                            THEN AllEntries(it.value) ELSE <<>>)])])

\* the entries of the expression itself, without the nested ones
TopEntries(f) ==
    IF f.t # "dict" THEN <<>>
    ELSE Concat([j \in 1..Len(f.d) |->
            IF f.d[j].value.t # "dict" THEN <<>>
            ELSE [i \in 1..Len(f.d[j].value.d) |->
                    [key |-> f.d[j].key, op |-> f.d[j].value.d[i].key,
                     value |-> f.d[j].value.d[i].value]]])

Count(seq, Test(_)) == Cardinality({j \in 1..Len(seq) : Test(seq[j])})

IsNone(e) == e.value = None
NotNone(e) == e.value # None

RECURSIVE StripNone(_)
\* the expression without its None-valued operator entries, at every level
StripNone(f) ==
    IF f.t # "dict" THEN f
    ELSE PyDict([j \in 1..Len(f.d) |->
            IF f.d[j].value.t # "dict" THEN f.d[j]
            ELSE Item(f.d[j].key,
                      PyDict(LET kept == SelectSeq(f.d[j].value.d,
                                                   LAMBDA it : it.value # None)
                             IN  [i \in 1..Len(kept) |->
                                    Item(kept[i].key, StripNone(kept[i].value))]))])

\* some entry, and every entry None-valued
AllValuesNone(f) ==
    /\ Len(AllEntries(f)) > 0
    /\ \A j \in 1..Len(AllEntries(f)) : IsNone(AllEntries(f)[j])

\* a None-valued entry inside a HAS / ANY sub-filter
NestedNone(f) ==
    \E j \in 1..Len(AllEntries(f)) :
        LET e == AllEntries(f)[j]
        IN  /\ e.op \in {"HAS", "ANY"}
            /\ e.value.t = "dict"
            /\ \E i \in 1..Len(AllEntries(e.value)) : IsNone(AllEntries(e.value)[i])

\* C1: with with_optional = true a None-valued operator entry contributes
\* nothing, at the top level and in every HAS / ANY sub-filter: the result
\* is that of the expression without its None-valued entries; an expression
\* whose values are all None compiles to [] and adds no WHERE clause.
C1_OptionalNoneSkipped ==
    (pc = "returned" /\ with_optional) =>
        /\ get_filters(StripNone(filters), FALSE) = Ok(conditions)
        /\ AllValuesNone(filters) =>
              /\ conditions = <<>>
              /\ FilterUnlessEmpty(stmt, conditions) = stmt

C1_Witness ==
    /\ pc = "returned"
    /\ with_optional
    /\ NestedNone(filters)
    /\ conditions = <<>>

\* a BETWEEN / BETWEEN_OR_EQUAL entry whose bound has two sides, both given
TwoSided(e) ==
    /\ e.op \in BetweenOps
    /\ HasLen(e.value)
    /\ PyLen(e.value) = 2
    /\ Iterate(e.value)[1] # None
    /\ Iterate(e.value)[2] # None

\* C2 as stated: with with_optional = true the number of predicates never
\* exceeds the number of operator entries whose value is not None.
C2_AtMostNonNoneEntries ==
    (pc = "returned" /\ with_optional) =>
        Len(conditions) <= Count(AllEntries(filters), NotNone)

\* C2 amended: the number of predicates never exceeds the number of
\* non-None operator entries plus the number of BETWEEN / BETWEEN_OR_EQUAL
\* entries with both bounds given (such an entry contributes two).
C2_AtMostNonNonePlusTwoSided ==
    (pc = "returned" /\ with_optional) =>
        Len(conditions) <= Count(AllEntries(filters), NotNone)
                           + Count(AllEntries(filters), TwoSided)

C2_Witness ==
    /\ pc = "returned"
    /\ with_optional
    /\ Count(AllEntries(filters), IsNone) > 0
    /\ Count(AllEntries(filters), TwoSided) > 0
    /\ Len(conditions) = Count(AllEntries(filters), NotNone)
                         + Count(AllEntries(filters), TwoSided)

\* the Python operator of a comparison operator
Symbol(op) ==
    CASE op = "EQUAL" -> "=="
      [] op = "DIFFERENT" -> "!="
      [] op = "SUPERIOR" -> ">"
      [] op = "INFERIOR" -> "<"
      [] op = "SUPERIOR_OR_EQUAL" -> ">="
      [] op = "INFERIOR_OR_EQUAL" -> "<="

\* some entry, and every entry one of the operators of ops, none nested
OnlyOps(f, ops) ==
    /\ Len(TopEntries(f)) > 0
    /\ \A j \in 1..Len(TopEntries(f)) : TopEntries(f)[j].op \in ops

\* C3: in the required filter (with_optional = false) every comparison
\* entry contributes exactly one predicate, key <op> value, a None-valued
\* one included; in the optional filter the None-valued ones contribute none.
C3_RequiredAppliesNone ==
    (pc = "returned" /\ OnlyOps(filters, ComparisonOps)) =>
        LET kept == IF with_optional
                    THEN SelectSeq(TopEntries(filters), NotNone)
                    ELSE TopEntries(filters)
        IN  conditions = [j \in 1..Len(kept) |->
                            Binary(Symbol(kept[j].op), kept[j].key, kept[j].value)]

C3_Witness ==
    /\ pc = "returned"
    /\ ~with_optional
    /\ OnlyOps(filters, ComparisonOps)
    /\ Count(TopEntries(filters), IsNone) = MaxEntries
    /\ Len(conditions) = MaxEntries

\* what a bound contributes: one predicate per given side of a 2-element
\* bound, nothing for any other length
ExpectedBetween(e) ==
    LET strict == e.op = "BETWEEN"
        b == e.value.l
    IN  IF Len(b) # 2 THEN <<>>
        ELSE (IF b[1] # None
              THEN <<Binary(IF strict THEN ">" ELSE ">=", e.key, b[1])>> ELSE <<>>)
             \o (IF b[2] # None
                 THEN <<Binary(IF strict THEN "<" ELSE "<=", e.key, b[2])>> ELSE <<>>)

ListBound(e) == e.op \in BetweenOps => e.value.t = "list"
IsBetween(e) == e.op \in BetweenOps
Malformed(e) == e.op \in BetweenOps /\ e.value.t = "list" /\ Len(e.value.l) # 2

\* C4: a 2-element bound contributes one predicate per non-None side
\* (> and < for BETWEEN, >= and <= for BETWEEN_OR_EQUAL); a bound of any
\* other length contributes nothing and raises nothing, and the other
\* operators of the field are still compiled.
C4_BetweenSides ==
    (/\ OnlyOps(filters, ComparisonOps \cup BetweenOps)
     /\ Count(TopEntries(filters), IsBetween) > 0
     /\ Count(TopEntries(filters), ListBound) = Len(TopEntries(filters))) =>
        /\ pc # "raised"
        /\ pc = "returned" =>
              conditions = Concat([j \in 1..Len(TopEntries(filters)) |->
                  LET e == TopEntries(filters)[j]
                  IN  IF with_optional /\ IsNone(e) THEN <<>>
                      ELSE IF IsBetween(e) THEN ExpectedBetween(e)
                      ELSE <<Binary(Symbol(e.op), e.key, e.value)>>])

C4_Witness ==
    /\ pc = "returned"
    /\ ~with_optional
    /\ OnlyOps(filters, ComparisonOps \cup BetweenOps)
    /\ Len(filters.d) = 1
    /\ Malformed(TopEntries(filters)[1])
    /\ Len(TopEntries(filters)) > 1
    /\ Len(conditions) = Len(TopEntries(filters)) - 1

\* a filter that is one HAS (or ANY) entry with a nested filter dict
SingleRelationshipEntry(f, op) ==
    /\ Len(TopEntries(f)) = 1
    /\ TopEntries(f)[1].op = op
    /\ TopEntries(f)[1].value.t = "dict"

\* C7: HAS over a nested filter that compiles to n predicates contributes
\* exactly n predicates, the j-th one key.has(the j-th nested predicate);
\* none for n = 0; the nested predicates are never merged under one HAS.
C7_HasWrapsEach ==
    (pc = "returned" /\ SingleRelationshipEntry(filters, "HAS")) =>
        LET e == TopEntries(filters)[1]
            nested == get_filters(e.value, with_optional).conditions
        IN  /\ Len(conditions) = Len(nested)
            /\ \A j \in 1..Len(nested) :
                  /\ conditions[j] = has(e.key, nested[j])
                  /\ conditions[j].criterion.t # "and_"

C7_Witness ==
    /\ pc = "returned"
    /\ SingleRelationshipEntry(filters, "HAS")
    /\ Len(conditions) = 2
    /\ conditions[1] # conditions[2]

\* the key expression a membership operator compares: the key, or the
\* tuple of its n components; each lower-cased for IIN and NOT_IIN
MembershipKey(key, folded) ==
    IF key.t = "tuple"
    THEN tuple_([j \in 1..Len(key.items) |->
                   IF folded THEN lower(key.items[j]) ELSE key.items[j]])
    ELSE IF folded THEN lower(key) ELSE key

\* the values a membership operator compares against: v, or [v] for a
\* value that is not iterable; each but Null lower-cased for IIN and NOT_IIN
MembershipValues(v, folded) ==
    LET vs == IF Iterable(v) THEN Iterate(v) ELSE <<v>>
    IN  PyList([j \in 1..Len(vs) |->
                  IF folded /\ vs[j].t # "Null" THEN lower(vs[j]) ELSE vs[j]])

OnTupleKey(e) == e.key.t = "tuple"

\* C6: each IN, NOT_IN, IIN, NOT_IIN entry yields one membership predicate:
\* over the tuple of all n components of a tuple key (each lower-cased for
\* IIN / NOT_IIN), over the key itself for a scalar key; a value that is not
\* iterable is compared as the one-element list [v].
C6_MembershipPredicates ==
    (/\ pc = "returned"
     /\ ~with_optional
     /\ OnlyOps(filters, MembershipOps)) =>
        conditions = [j \in 1..Len(TopEntries(filters)) |->
            LET e == TopEntries(filters)[j]
                folded == e.op \in {"IIN", "NOT_IIN"}
            IN  Binary(IF e.op \in {"IN", "IIN"} THEN "in" ELSE "notin",
                       MembershipKey(e.key, folded),
                       MembershipValues(e.value, folded))]

\* the part of C6 the code meets: scalar keys with any membership operator,
\* tuple keys with IN and NOT_IN
C6_ScalarOrPlainTuple ==
    (/\ pc = "returned"
     /\ ~with_optional
     /\ OnlyOps(filters, MembershipOps)
     /\ \A j \in 1..Len(TopEntries(filters)) :
           OnTupleKey(TopEntries(filters)[j]) =>
              TopEntries(filters)[j].op \in {"IN", "NOT_IN"}) =>
        conditions = [j \in 1..Len(TopEntries(filters)) |->
            LET e == TopEntries(filters)[j]
                folded == e.op \in {"IIN", "NOT_IIN"}
            IN  Binary(IF e.op \in {"IN", "IIN"} THEN "in" ELSE "notin",
                       MembershipKey(e.key, folded),
                       MembershipValues(e.value, folded))]

-----------------------------------------------------------------------------
(* The claims on the rows a filter selects.                                *)

\* the one filter expression of the call, and its one operator entry
TheFilter == IF filters # None THEN filters ELSE optional_filters
TheEntry == TopEntries(TheFilter)[1]

\* the rows _select_all returns for the filter {key: {k: v}}, passed as the
\* filter of the state is (required or optional)
RowsFor(key, k, v) ==
    Execute(build_select_stmt(Select("User"), "User",
                              IF filters # None THEN OneEntry(key, k, v) ELSE None,
                              IF filters # None THEN None ELSE OneEntry(key, k, v),
                              None, None, None, None, None).stmt)

RECURSIVE RecasingsOfAll(_)
\* the upper/lower re-casings of a string (a Null has none but itself), and
\* of a list the lists of the re-casings of its elements
Recasings(v) ==
    CASE v.t = "str" ->
            {PyStr(x) : x \in {y \in [1..Len(v.s) -> Letters \cup {"%"}] :
                                 LowerStr(y) = LowerStr(v.s)}}
      [] v.t = "list" -> {PyList(l) : l \in RecasingsOfAll(v.l)}
      [] OTHER -> {v}
RecasingsOfAll(l) ==
    IF l = <<>> THEN {<<>>}
    ELSE {<<h>> \o t : h \in Recasings(Head(l)), t \in RecasingsOfAll(Tail(l))}

Rows(seq) == {seq[j] : j \in 1..Len(seq)}

\* the case-sensitive operator of IEQUAL and IIN
CaseSensitive(op) == IF op = "IEQUAL" THEN "EQUAL" ELSE "IN"

\* C5: a case-insensitive operator selects the same rows for a value and
\* for every upper/lower re-casing of it, and IEQUAL / IIN select at least
\* the rows EQUAL / IN select for the same value.
C5_CaseInsensitive ==
    (pc = "done" /\ TheEntry.op \in CaseInsensitiveOps) =>
        /\ \A w \in Recasings(TheEntry.value) :
              RowsFor(TheEntry.key, TheEntry.op, w) = result
        /\ TheEntry.op \in {"IEQUAL", "IIN"} =>
              Rows(RowsFor(TheEntry.key, CaseSensitive(TheEntry.op), TheEntry.value))
                 \subseteq Rows(result)

\* IIN with a value in a casing no stored email has selects the two rows
\* whose email is that value in another casing; IN selects none of them
C5_Witness ==
    /\ pc = "done"
    /\ TheEntry.op = "IIN"
    /\ TheEntry.value = PyList(<<PyStr(<<"A", "B">>)>>)
    /\ result = <<Users[1], Users[2]>>
    /\ RowsFor(TheEntry.key, "IN", TheEntry.value) = <<>>

\* a filter on the zip code of the addresses by IN and NOT_IN of lists
ZipMembership(f) ==
    /\ f.t = "dict"
    /\ Len(f.d) = 1
    /\ f.d[1].key = Address_zip_code
    /\ \A j \in 1..Len(TopEntries(f)) :
          /\ TopEntries(f)[j].op \in {"IN", "NOT_IN"}
          /\ TopEntries(f)[j].value.t = "list"

\* one address meets every entry of the filter: its zip code is in the
\* list of IN, and is not in the list of NOT_IN; an unknown zip code is
\* neither in a list nor out of one, except out of the empty list
AddressMeets(a, f) ==
    \A j \in 1..Len(TopEntries(f)) :
        LET e == TopEntries(f)[j]
        IN  IF e.op = "IN"
            THEN a.zip_code # None /\ a.zip_code \in Rows(e.value.l)
            ELSE \/ e.value.l = <<>>
                 \/ a.zip_code # None /\ a.zip_code \notin Rows(e.value.l)

\* C8: ANY contributes nothing when its nested filter compiles to no
\* predicate, and else exactly one predicate, key.any of the conjunction of
\* all nested predicates; the users ANY{zip_code IN S, ...} selects are
\* those with at least one single address meeting every nested predicate.
C8_AnyOnce ==
    (pc \in {"execute", "done"} /\ SingleRelationshipEntry(TheFilter, "ANY")) =>
        LET nested == get_filters(TheEntry.value, filters = None).conditions
        IN  /\ Len(stmt.where) <= 1
            /\ nested = <<>> => stmt.where = <<>>
            /\ nested # <<>> =>
                  stmt.where = <<and_(<<any(TheEntry.key, and_(nested))>>)>>
            /\ (pc = "done" /\ ZipMembership(TheEntry.value)) =>
                  result = SelectSeq(Users, LAMBDA u :
                              \E j \in 1..Len(u.addresses) :
                                  AddressMeets(u.addresses[j], TheEntry.value))

\* user 1 has an address of zip code 1 and one of zip code 2: only the
\* second is in [1, 2] and not in [1]
C8_Witness ==
    /\ pc = "done"
    /\ SingleRelationshipEntry(TheFilter, "ANY")
    /\ ZipMembership(TheEntry.value)
    /\ Len(TopEntries(TheEntry.value)) = 2
    /\ Len(stmt.where) = 1
    /\ result = <<Users[1]>>

-----------------------------------------------------------------------------
(* The claims on build_select_stmt.                                        *)

RECURSIVE NonMapping(_)
\* a filter expression that is present and no mapping, or holds such a one
\* as the value of a HAS or ANY entry
NonMapping(f) ==
    /\ f # None
    /\ \/ f.t # "dict"
       \/ \E j \in 1..Len(TopEntries(f)) :
             /\ TopEntries(f)[j].op \in {"HAS", "ANY"}
             /\ NonMapping(TopEntries(f)[j].value)

\* C9: a filter expression that is None gives no predicate and raises
\* nothing; one that is present and not a mapping, itself or as the value
\* of a HAS / ANY entry, raises TypeError in its step, and then no
\* statement is returned and none is executed.
C9_NonMappingRaises ==
    /\ (filters = None /\ optional_filters = None) =>
          /\ stmt.where = <<>>
          /\ error # "TypeError"
    /\ (NonMapping(filters) \/ NonMapping(optional_filters)) =>
          /\ pc \in {"build", "raised"}
          /\ result = NoResult
          /\ pc = "raised" => error = "TypeError"
          /\ idx <= (IF NonMapping(filters) THEN 2 ELSE 3)
          /\ Len(steps) >= 3 => pc = "raised"

C9_Witness ==
    /\ pc = "raised"
    /\ error = "TypeError"
    /\ filters # None
    /\ filters.t = "dict"
    /\ NonMapping(filters)
    /\ steps = <<"apply_relationship_options", "apply_filters">>
    /\ result = NoResult

\* the order the steps are documented in
StepOrder ==
    <<"apply_relationship_options", "apply_filters", "apply_optional_filters",
      "apply_group_by", "apply_order_by", "apply_limit">>

IsPrefix(p, q) == Len(p) <= Len(q) /\ p = SubSeq(q, 1, Len(p))

\* the predicates of one filter expression: field by field in insertion
\* order, and within a field operator by operator
PredicatesOf(f, with_opt) ==
    IF f = None THEN <<>>
    ELSE IF OnlyOps(f, ComparisonOps \cup BetweenOps)
    THEN Concat([j \in 1..Len(TopEntries(f)) |->
            LET e == TopEntries(f)[j]
            IN  IF with_opt /\ IsNone(e) THEN <<>>
                ELSE IF IsBetween(e) THEN ExpectedBetween(e)
                ELSE <<Binary(Symbol(e.op), e.key, e.value)>>])
    ELSE get_filters(f, with_opt).conditions

\* the WHERE criterion of one filter expression: the conjunction of its
\* predicates, or none when it has no predicate
ConjunctionOf(f, with_opt) ==
    IF PredicatesOf(f, with_opt) = <<>> THEN <<>>
    ELSE <<and_(PredicatesOf(f, with_opt))>>

\* C10: the steps run in the documented order, limit last; after k steps
\* the statement holds what the first k inputs give and nothing else: the
\* load directives, one conjunction per filter expression with a predicate
\* (required before optional, predicates in field then operator order),
\* group-by, order-by, limit; an input that is None adds nothing.
C10_StepsInOrder ==
    LET k == idx - 1
    IN  /\ IsPrefix(steps, StepOrder)
        /\ stmt.limit # None => steps = StepOrder
        /\ stmt.options =
              IF k >= 1 /\ relationship_options # None
              THEN <<[t |-> "load", technique |-> "JOINED", path |-> <<Address_city>>]>>
              ELSE <<>>
        /\ stmt.where =
              (IF k >= 2 THEN ConjunctionOf(filters, FALSE) ELSE <<>>)
              \o (IF k >= 3 THEN ConjunctionOf(optional_filters, TRUE) ELSE <<>>)
        /\ stmt.group_by = IF k >= 4 /\ group_by # None THEN <<group_by>> ELSE <<>>
        /\ stmt.order_by =
              IF k >= 5 /\ order_by # None
              THEN <<[t |-> "desc", column |-> Address_zip_code]>>
              ELSE <<>>
        /\ stmt.limit = IF k >= 6 THEN limit ELSE None

C10_Witness ==
    /\ pc = "done"
    /\ steps = StepOrder
    /\ Len(stmt.options) = 1
    /\ Len(stmt.where) = 1
    /\ Len(filters.d) = 2
    /\ Len(stmt.where[1].clauses) = 2
    /\ optional_filters.t = "dict"
    /\ Len(stmt.group_by) = 1
    /\ Len(stmt.order_by) = 1
    /\ stmt.limit = PyInt(1)
    /\ Len(result) = 1

-----------------------------------------------------------------------------
(* The claims on apply_order_by.                                           *)

\* a str taken as the one-element list of it
Listed(x) == IF x.t = "str" THEN <<x>> ELSE x.l

\* every direction is "asc" or "desc" and every field a column of Address
Orderable ==
    /\ \A j \in 1..Len(Listed(direction)) :
          Listed(direction)[j] \in {PyName("asc"), PyName("desc")}
    /\ \A j \in 1..Len(Listed(order_by)) :
          Listed(order_by)[j] \in {PyName("zip_code"), PyName("id")}

\* C11: with order_by or direction None the statement stays unordered; a
\* str counts as the one-element list; lists of different lengths raise
\* ValueError in the order-by step and nothing is executed; with equal
\* lengths and every direction "asc" or "desc" the statement gets one
\* ordering clause per field, in order, ascending or descending as asked.
C11_OrderBy ==
    IF order_by = None \/ direction = None
    THEN stmt.order_by = <<>> /\ pc # "raised"
    ELSE IF Len(Listed(order_by)) # Len(Listed(direction))
    THEN /\ stmt.order_by = <<>>
         /\ pc \in {"build", "raised"}
         /\ result = NoResult
         /\ idx <= 5
         /\ pc = "raised" => error = "ValueError"
         /\ Len(steps) >= 5 => pc = "raised"
    ELSE Orderable =>
            /\ pc # "raised"
            /\ stmt.order_by =
                  IF idx <= 5 THEN <<>>
                  ELSE [j \in 1..Len(Listed(order_by)) |->
                          [t |-> Listed(direction)[j].s[1],
                           column |-> Attr("Address", Listed(order_by)[j].s[1])]]

\* two fields, descending then ascending
C11_Witness ==
    /\ pc = "done"
    /\ order_by = PyList(<<PyName("zip_code"), PyName("id")>>)
    /\ direction = PyList(<<PyName("desc"), PyName("asc")>>)
    /\ stmt.order_by = <<[t |-> "desc", column |-> Address_zip_code],
                         [t |-> "asc", column |-> Attr("Address", "id")]>>

-----------------------------------------------------------------------------
(* The claims on pagination.                                               *)

\* the page count: the least number of pages of per_page rows holding total
Ceiling(total, per_page) ==
    CHOOSE n \in 0..total : n * per_page >= total /\ (n = 0 \/ (n - 1) * per_page < total)

Min(a, b) == IF a < b THEN a ELSE b
Max(a, b) == IF a > b THEN a ELSE b

\* the rows the filter of the call matches
Matched == Len(SelectedFrom(table, build_select_stmt(Select("User"), "User",
               filters, None, None, None, None, None, None).stmt))

\* the rows the count query counts: those of the plan, limit included
Counted == IF limit = None THEN Matched ELSE Min(limit.i, Matched)

\* the descriptor of a call with page and per_page, and the slicing
Described ==
    /\ log = IF pc = "done" THEN <<"count", "execute">> ELSE <<"count">>
    /\ stmt.offset = PyInt((call.page.i - 1) * call.per_page.i)
    /\ stmt.limit = PyInt(call.per_page.i)
    /\ ret.pagination.members =
          <<(<<"total", Counted>>), (<<"page", call.page.i>>),
            (<<"per_page", call.per_page.i>>),
            (<<"total_pages", Ceiling(Counted, call.per_page.i)>>)>>

C13_NoPagination ==
    ((call.page = None \/ call.per_page = None) /\ pc \in {"execute_page", "done"}) =>
        /\ \A j \in 1..Len(log) : log[j] # "count"
        /\ stmt = build_select_stmt(Select("User"), "User", filters, None, None,
                                    None, None, None, limit).stmt
        /\ stmt.offset = None
        /\ stmt.limit = limit
        /\ ret.pagination = None

C13_Witness ==
    /\ pc = "done"
    /\ call.kind = "async"
    /\ call.page = PyInt(2)
    /\ call.per_page = None
    /\ log = <<"execute">>
    /\ Len(result) = 4
    /\ ret.pagination = None

-----------------------------------------------------------------------------
(* The facade: sessions, payloads and the mutating operations.             *)

Finished == pc = "done"

\* the interactions with the session of kind what, in order of occurrence
Positions(what) == {j \in 1..Len(log) : log[j] = what}

\* the call was made without a session
NoSessionGiven == call.owned \/ call.session = None

\* the payload passes check_values, for the methods that have one
WellFormed ==
    call.op \in CheckedOps => check_values(call.op = "_add_all", call.values) = "none"

\* C14: an asynchronous method called on an AsyncRepository without a session
\* (and with a well-formed payload) acquires a session first and sends its
\* statement, as the synchronous method does.
C14_AsyncAcquires ==
    (Finished /\ call.kind = "async" /\ call.receiver = "Repository"
        /\ NoSessionGiven /\ WellFormed)
    => (log # <<>> /\ log[1] = "acquire" /\ Positions("execute") # {})

\* the interactions of the method itself: all but acquiring and releasing
Body == SelectSeq(log, LAMBDA x : x \notin {"acquire", "close"})

\* execute, then flush if asked, then commit if asked
ExpectedTransaction ==
    <<"execute">>
    \o (IF call.flush THEN <<"flush">> ELSE <<>>)
    \o (IF call.commit THEN <<"commit">> ELSE <<>>)

\* a mutating method returned, having affected at least one row
Mutated ==
    Finished /\ error = "none" /\ call.op \in MutatingOps /\ Len(result) >= 1

\* C15: a mutating method that affected at least one row and returns has
\* called the session in the order execute, flush (iff flush), commit (iff
\* commit), then only refresh; with flush or commit set, _add, _add_all,
\* _update and _update_all refresh each affected entity exactly once, after
\* the flush and the commit.
C15_TransactionOrder ==
    Mutated =>
        /\ IsPrefix(ExpectedTransaction, Body)
        /\ \A j \in Len(ExpectedTransaction) + 1 .. Len(Body) : Body[j] = "refresh"
        /\ (call.op \in CheckedOps /\ (call.flush \/ call.commit))
            => Cardinality(Positions("refresh")) = Len(result)

C15_Witness ==
    /\ Mutated
    /\ call.op = "_add_all"
    /\ call.flush /\ call.commit
    /\ Len(result) = 2
    /\ Body = <<"execute", "flush", "commit", "refresh", "refresh">>

\* C16: _update_all and _delete_all return a boolean, true iff at least one
\* row matched the filters.
C16_BooleanSuccess ==
    (Finished /\ error = "none" /\ call.op \in {"_update_all", "_delete_all"})
    => (ret.t = "bool" /\ (ret.b <=> Len(result) >= 1))

\* what holds instead: _delete_all returns that boolean, _update_all the
\* sequence of the updated rows
C16_DeleteAllBoolean ==
    (Finished /\ error = "none" /\ call.op = "_delete_all")
    => (ret.t = "bool" /\ (ret.b <=> Len(result) >= 1))

\* the users the filters of the call match when it is made
MatchedAtCall ==
    SelectedFrom(Users, build_select_stmt(Select("User"), "User", call.f, None,
                                          None, None, None, None, None).stmt)

\* the session was sent the statement of the method
Sent == Finished /\ Positions("execute") # {}

\* C17: _delete and _delete_all whose filters match no row return False and
\* _update matching no row returns None, without raising, without flush,
\* commit or refresh and with the stored rows unchanged, whatever the flags;
\* on exactly one matching row _delete returns True and _update the updated
\* entity, unless interrupted.
C17_NotFoundIsValue ==
    /\ (Sent /\ call.op \in {"_delete", "_delete_all", "_update"}
          /\ Len(MatchedAtCall) = 0)
       => /\ error = "none"
          /\ ret = IF call.op = "_update" THEN None ELSE [t |-> "bool", b |-> FALSE]
          /\ Body = <<"execute">>
          /\ table = Users
    /\ (Sent /\ call.op \in {"_delete", "_update"} /\ Len(MatchedAtCall) = 1
          /\ error \notin Signals)
       => /\ error = "none"
          /\ ret = IF call.op = "_delete" THEN [t |-> "bool", b |-> TRUE]
                   ELSE [t |-> "entity",
                         row |-> [MatchedAtCall[1] EXCEPT !.email = PyStr(<<"b">>)]]

C17_Witness ==
    /\ Sent
    /\ call.op = "_delete"
    /\ call.flush /\ call.commit
    /\ Len(MatchedAtCall) = 0
    /\ ret = [t |-> "bool", b |-> FALSE]

\* the decorator acquired the session of the call from session_factory and
\* the scope has ended
ScopeEnded == Finished /\ call.owned

\* the last n interactions with the session (all, if fewer)
Last(n) == IF Len(log) < n THEN log ELSE SubSeq(log, Len(log) - n + 1, Len(log))

\* session_factory keeps the exception of the body
Reraised == (pc \in {"exit", "finally"} /\ error # "none") => error' = error

\* the session was acquired once, closed once and last, and committed only
\* by a method asked to commit
Released ==
    /\ Positions("acquire") = {1}
    /\ Positions("close") = {Len(log)}
    /\ (Positions("commit") # {} => call.commit)

\* C18: a session acquired from session_factory is released on every exit:
\* when the body returns it is closed, with no rollback and no commit of the
\* factory's own; when the body raises, the failure is logged, the session
\* is rolled back, then closed, and the same exception reaches the caller;
\* the one session yielded is closed once the scope has ended.
C18_ScopedSession ==
    /\ [](ScopeEnded =>
            /\ Released
            /\ IF error = "none"
               THEN Positions("rollback") = {} /\ Positions("error") = {}
               ELSE Last(3) = <<"error", "rollback", "close">>
                    /\ Cardinality(Positions("rollback")) = 1)
    /\ [][Reraised]_vars

\* what holds instead: the same, with the log entry and the rollback only
\* for an exception that is an Exception
C18_ExceptionsRolledBack ==
    /\ [](ScopeEnded =>
            /\ Released
            /\ IF error \in {"none"} \cup Signals
               THEN Positions("rollback") = {} /\ Positions("error") = {}
               ELSE Last(3) = <<"error", "rollback", "close">>
                    /\ Cardinality(Positions("rollback")) = 1)
    /\ [][Reraised]_vars

\* a synchronous call on a Repository that got past check_values
Decorated == Finished /\ call.kind = "sync" /\ WellFormed

\* C19: under with_session, a call given a Session runs on it, and the
\* decorator acquires, closes and rolls back nothing; a call given none
\* acquires exactly one session for the whole call, delegation included,
\* and releases it when the call returns or raises; a session that is not a
\* Session, or a receiver that is neither Repository nor Service, raises
\* TypeError and the operation is not invoked.
C19_WithSession ==
    /\ (Decorated /\ call.receiver = "Repository" /\ ~ NoSessionGiven
          /\ call.session = Session)
       => /\ log = Body
          /\ Positions("rollback") = {}
          /\ (error \notin Signals => Positions("execute") # {})
    /\ (Decorated /\ call.receiver = "Repository" /\ NoSessionGiven)
       => /\ call.owned
          /\ Positions("acquire") = {1}
          /\ Positions("close") = {Len(log)}
          /\ (error \notin Signals => Positions("execute") # {})
    /\ (Decorated /\ (call.receiver # "Repository" \/ call.session = PyInt(1)))
       => /\ error = "TypeError"
          /\ log = <<>>
          /\ table = Users
          /\ ret = NoResult

C19_Witness ==
    /\ Decorated
    /\ call.op = "_select_all_stmt"
    /\ call.depth = 1
    /\ call.owned
    /\ log = <<"acquire", "execute", "close">>

\* a non-empty dict with string keys
NonEmptyStrDict(v) ==
    v.t = "dict" /\ Len(v.d) > 0 /\ \A j \in 1..Len(v.d) : v.d[j].key.t = "str"

\* the payload of a call of _add, _update, _update_all is not a non-empty
\* dict with string keys; that of _add_all is not a non-empty list of such
\* dicts
MalformedPayload ==
    IF call.op = "_add_all"
    THEN \/ call.values \in {Missing, None}
         \/ call.values.t # "list"
         \/ Len(call.values.l) = 0
         \/ \E j \in 1..Len(call.values.l) : ~ NonEmptyStrDict(call.values.l[j])
    ELSE call.values \in {Missing, None} \/ ~ NonEmptyStrDict(call.values)

\* nothing was asked of a session and the stored rows are as they were
Untouched == log = <<>> /\ table = Users /\ ret = NoResult

\* C20: a malformed values payload is rejected with TypeError by _add,
\* _update, _update_all and _add_all before a session is acquired and before
\* a statement is sent; the stored rows are unchanged.
C20_MalformedRejected ==
    (Finished /\ call.op \in CheckedOps /\ MalformedPayload)
    => (error = "TypeError" /\ Untouched)

\* what holds instead: the same for the methods taking one dict
C20_DictRejected ==
    (Finished /\ call.op \in CheckedOps \ {"_add_all"} /\ MalformedPayload)
    => (error = "TypeError" /\ Untouched)

-----------------------------------------------------------------------------
(* The claims on the relationship options.                                 *)

\* the relationship attributes of the schema
Relationships == {User_addresses, Address_city}

\* the entry is one of a relationship attribute and a RelationshipOption
WellFormedEntry(e) ==
    /\ e.key \in Relationships
    /\ e.value # None
    /\ e.value.t = "RelationshipOption"

RECURSIVE ExpectedDirectives(_, _, _)
\* depth-first, from entry j of a mapping below the attributes of path: the
\* technique and the path of every well-formed entry that has a technique
ExpectedDirectives(items, j, path) ==
    IF j > Len(items) THEN <<>>
    ELSE IF ~ WellFormedEntry(items[j])
         THEN ExpectedDirectives(items, j + 1, path)
    ELSE (IF items[j].value.lazy \in LoadingTechniques
          THEN <<[technique |-> items[j].value.lazy,
                  path |-> Append(path, items[j].key)]>>
          ELSE <<>>)
         \o (IF items[j].value.children = None THEN <<>>
             ELSE ExpectedDirectives(items[j].value.children.d, 1,
                                     Append(path, items[j].key)))
         \o ExpectedDirectives(items, j + 1, path)

\* an element of the path of a directive without its extra conditions
Unrestricted(x) == IF x.t = "attr_and" THEN x.attr ELSE x

\* the directives of the statement: technique and attributes of the path
Directives ==
    [j \in 1..Len(stmt.options) |->
        [technique |-> stmt.options[j].technique,
         path |-> [n \in 1..Len(stmt.options[j].path) |->
                     Unrestricted(stmt.options[j].path[n])]]]

\* the options step of the builder is over
OptionsApplied == Len(steps) >= 1

\* C21: apply_relationship_options attaches, depth-first, one load directive
\* per well-formed entry reached through well-formed ancestors, of the
\* entry's technique and on the path of the ancestors' attributes followed
\* by its own; entries with a None or non-attribute key or a None or
\* non-option value are skipped without error and their siblings kept; a
\* None mapping leaves the statement without directive.
C21_OptionsDepthFirst ==
    OptionsApplied =>
        /\ error = "none"
        /\ Directives = IF relationship_options = None THEN <<>>
                        ELSE ExpectedDirectives(relationship_options.d, 1, <<>>)

\* a skipped entry before User.addresses, and Address.city below it
C21_Witness ==
    /\ OptionsApplied
    /\ relationship_options # None
    /\ Len(relationship_options.d) = 2
    /\ relationship_options.d[1].key = None
    /\ Len(stmt.options) = 2
    /\ Directives[1].path = <<User_addresses>>
    /\ Directives[2] = [technique |-> "SELECTIN",
                        path |-> <<User_addresses, Address_city>>]

\* User.addresses loaded by a join and, below it, Address.city of technique
TwoLevels(technique) ==
    PyDict(<<Item(User_addresses,
                  RelationshipOption("JOINED", None,
                      PyDict(<<Item(Address_city,
                                    RelationshipOption(technique, None, None))>>)))>>)

\* the rows were fetched
Fetched_All == pc = "done" /\ result # NoResult

\* no entity is returned twice
EachOnce == \A j, k \in 1..Len(result) : result[j].id = result[k].id => j = k

\* C22: with User.addresses loaded by a join, a no-load Address.city gets a
\* NOLOAD directive on the path [User.addresses, Address.city] and the
\* cities of the addresses are not loaded, while a joined Address.city loads
\* addresses and cities; either way _select_all_stmt returns each user at
\* most once, whatever the number of its addresses.
C22_TwoLevelTree ==
    /\ (Fetched_All /\ relationship_options = TwoLevels("NOLOAD"))
       => /\ Directives = <<[technique |-> "JOINED", path |-> <<User_addresses>>],
                            [technique |-> "NOLOAD",
                             path |-> <<User_addresses, Address_city>>]>>
          /\ EachOnce
          /\ Len(result) = Len(Users)
          /\ \A j \in 1..Len(result) :
                /\ Len(result[j].addresses) = Len(Users[j].addresses)
                /\ \A n \in 1..Len(result[j].addresses) :
                      result[j].addresses[n].city = <<>>
    /\ (Fetched_All /\ relationship_options = TwoLevels("JOINED"))
       => /\ Directives = <<[technique |-> "JOINED", path |-> <<User_addresses>>],
                            [technique |-> "JOINED",
                             path |-> <<User_addresses, Address_city>>]>>
          /\ EachOnce
          /\ result = Users

\* the first user, of two addresses, returned once, the cities not loaded
C22_Witness ==
    /\ Fetched_All
    /\ relationship_options = TwoLevels("NOLOAD")
    /\ Len(Users[1].addresses) = 2
    /\ Cardinality({j \in 1..Len(result) : result[j].id = PyInt(1)}) = 1
    /\ result[1].addresses[1].city = <<>>
    /\ Users[1].addresses[1].city # <<>>

-----------------------------------------------------------------------------
(* The claim on concurrent call chains.                                    *)

\* the session chain c acquired, 0 before it has one
Acquired(c) ==
    IF \E j \in 1..Len(log) : log[j].chain = c /\ log[j].did = "acquire"
    THEN log[CHOOSE j \in 1..Len(log) :
                log[j].chain = c /\ log[j].did = "acquire"].session
    ELSE 0

\* every interaction of a chain is with the one session it acquired, which
\* no other chain acquired
OwnSession ==
    /\ \A j \in 1..Len(log) : log[j].session = Acquired(log[j].chain)
    /\ \A c, d \in Chains : (Acquired(c) # 0 /\ Acquired(c) = Acquired(d)) => c = d

\* a step of one chain leaves the sessions of the others as they are
OthersUntouched ==
    \A c \in Chains :
        (pc'[c] = pc[c] /\ Acquired(c) # 0) => result'[Acquired(c)] = result[Acquired(c)]

\* C23: however two call chains that call a method without a session are
\* interleaved, each acquires a session of its own and works on it alone;
\* an exception, a rollback or a close in one chain changes nothing of the
\* session of the other.
C23_SessionsNotShared == []OwnSession /\ [][OthersUntouched]_vars

\* one chain has rolled back and closed its session while the session of
\* the other is open and not rolled back
C23_Witness ==
    /\ pc[1] = "done" /\ error[1] # "none"
    /\ pc[2] = "body"
    /\ result[Acquired(1)] = [state |-> "closed", executed |-> 1, rolled_back |-> TRUE]
    /\ result[Acquired(2)] = [state |-> "open", executed |-> 0, rolled_back |-> FALSE]

-----------------------------------------------------------------------------
(* The claim on the termination of apply_relationship_options.              *)

\* the option objects of the well-formed entries of a mapping
Options(items) ==
    {items[j].value : j \in {k \in 1..Len(items) : ~WalkSkipped(items[k])}}

\* the objects reached from the objects of S in at most k steps down
RECURSIVE Below(_, _)
Below(S, k) ==
    IF k = 0 THEN S
    ELSE Below(S \cup UNION {Options(relationship_options.children[n]) : n \in S},
               k - 1)

\* the objects the walk has to visit
Reachable == Below(Options(relationship_options.root), MaxNodes)

\* an object that is reached is below itself
Cyclic ==
    \E n \in Reachable :
        n \in Below(Options(relationship_options.children[n]), MaxNodes)

\* the number of well-formed entries, of the mapping passed or of an object
\* reached, that hold object n
Holders(n) ==
    Cardinality({j \in 1..Len(relationship_options.root) :
                    /\ ~WalkSkipped(relationship_options.root[j])
                    /\ relationship_options.root[j].value = n})
        + Cardinality({m \in Reachable :
                          n \in Options(relationship_options.children[m])})

\* a finite tree: no cycle, and every object reached has one holder
Tree == ~Cyclic /\ \A n \in Reachable : Holders(n) = 1

\* the number of directives attached for object n
Visits(n) == Cardinality({j \in 1..Len(result) : result[j].node = n})

WalkEnded ==
    /\ pc = "done" =>
           /\ ~Cyclic
           /\ error = "none"
           /\ Tree => \A n \in Nodes : Visits(n) = IF n \in Reachable THEN 1 ELSE 0
    /\ pc = "raised" =>
           /\ Cyclic
           /\ error = "RecursionError"
           /\ \E j \in 1..Len(result) : result[j].path = RecursionLimit - 1

C24_Overflowed == pc = "raised" /\ Cyclic /\ error = "RecursionError"

-----------------------------------------------------------------------------
(* The claims on the mutating methods.                                     *)

\* the filters of the call compile to no predicate
NoPredicates == get_filters(call.f, FALSE) = Ok(<<>>)

\* every user with the email of the payload
AllUpdated == [j \in 1..Len(Users) |-> [Users[j] EXCEPT !.email = PyStr(<<"b">>)]]

\* C25: a delete or an update whose filters are None, an empty mapping or
\* compile to no predicate is built without WHERE and is executed on every
\* row: _delete_all deletes all of them, _update_all updates all of them,
\* and _delete and _update, sent the same statement, find more than one row.
C25_NoWhereTargetsAll ==
    (Positions("execute") # {} /\ NoPredicates
        /\ call.op \in {"_delete_all", "_update_all", "_delete", "_update"})
    => /\ stmt.where = <<>>
       /\ Len(result) = Len(Users)
       /\ call.op \in {"_delete", "_update"} => error = "MultipleResultsFound"
       /\ (call.op = "_delete_all" /\ Finished /\ error = "none")
            => table = <<>> /\ ret = [t |-> "bool", b |-> TRUE]
       /\ (call.op = "_update_all" /\ Finished /\ error = "none")
            => table = AllUpdated /\ ret = [t |-> "rows", rows |-> AllUpdated]

\* _delete_all called with an empty mapping has deleted every user
C25_Witness ==
    /\ Finished
    /\ call.op = "_delete_all"
    /\ call.f = PyDict(<<>>)
    /\ error = "none"
    /\ stmt = [Dml("delete", "User") EXCEPT !.returning = "User"]
    /\ table = <<>>

\* C26: _update and _delete whose filters match more than one row raise
\* MultipleResultsFound right after the execute, before any flush, commit or
\* refresh.  Called without a session, the session acquired for the call is
\* rolled back and closed and the stored rows are as before the call; called
\* with a session, the method neither rolls back nor closes it, and the rows
\* the statement changed stay changed in that session.
C26_SeveralRowsRaise ==
    (Sent /\ call.op \in {"_update", "_delete"} /\ Len(MatchedAtCall) > 1)
    => /\ error = "MultipleResultsFound"
       /\ ret = NoResult
       /\ IF call.owned
          THEN /\ log = <<"acquire", "execute", "error", "rollback", "close">>
               /\ table = Users
          ELSE /\ log = <<"execute">>
               /\ table = Stored(Users, stmt, <<>>)
               /\ table # Users

\* _update on two rows in a session of its own has raised and been rolled
\* back
C26_Witness ==
    /\ Finished
    /\ call.op = "_update"
    /\ call.owned
    /\ call.commit
    /\ Len(MatchedAtCall) = MaxMatched
    /\ error = "MultipleResultsFound"
    /\ table = Users

\* _delete on two rows in the session of the caller has raised, the rows
\* deleted in that session
C26_InCallerSession ==
    /\ Finished
    /\ call.op = "_delete"
    /\ ~call.owned
    /\ Len(result) = MaxMatched
    /\ error = "MultipleResultsFound"
    /\ Len(table) = Len(Users) - MaxMatched

-----------------------------------------------------------------------------
(* The claim on a limit under pagination.                                  *)

ExpectedRefreshes ==
    CASE call.op \in {"_update_all", "_update"} -> Len(result)
      [] call.op \in {"_add_all", "_add"} ->
            IF call.flush \/ call.commit THEN Len(result) ELSE 0
      [] call.op \in {"_delete_all", "_delete"} -> 0

\* C28: whether the affected entities are refreshed depends on the method:
\* _update and _update_all refresh every entity the statement returned, also
\* with flush and commit both false; _add and _add_all refresh them only
\* when flush or commit is set; _delete and _delete_all never refresh.
C28_RefreshByKind ==
    (Sent /\ call.op \in MutatingOps /\ error = "none")
    => Cardinality(Positions("refresh")) = ExpectedRefreshes

\* _update_all has refreshed both entities without flush or commit, and
\* nothing else followed the execute
C28_Witness ==
    /\ Finished
    /\ call.op = "_update_all"
    /\ ~call.flush
    /\ ~call.commit
    /\ error = "none"
    /\ Len(result) = MaxMatched
    /\ Body = <<"execute", "refresh", "refresh">>

\* _add_all of two rows without flush or commit has refreshed nothing
C28_AddedUnrefreshed ==
    /\ Finished
    /\ call.op = "_add_all"
    /\ error = "none"
    /\ Len(result) = 2
    /\ Body = <<"execute">>

-----------------------------------------------------------------------------
(* The claim on the directions of apply_order_by.                          *)

\* the direction of pair j is "asc" or "desc"
Recognised(j) == Listed(direction)[j] \in {PyName("asc"), PyName("desc")}

RECURSIVE KeptClauses(_)
\* the clauses of the pairs from j on whose direction is recognised
KeptClauses(j) ==
    IF j > Len(Listed(order_by)) THEN <<>>
    ELSE (IF Recognised(j)
          THEN <<[t |-> Listed(direction)[j].s[1],
                  column |-> Attr("Address", Listed(order_by)[j].s[1])]>>
          ELSE <<>>) \o KeptClauses(j + 1)

\* as many fields as directions, a direction that is neither "asc" nor
\* "desc", and a column of Address wherever the direction is one of the two
SomeUnrecognised ==
    /\ order_by # None
    /\ direction # None
    /\ Len(Listed(order_by)) = Len(Listed(direction))
    /\ \E j \in 1..Len(Listed(direction)) : ~Recognised(j)
    /\ \A j \in 1..Len(Listed(order_by)) :
          Recognised(j) => Listed(order_by)[j] \in {PyName("zip_code"), PyName("id")}

\* C29: with as many fields as directions, a direction that is not exactly
\* "asc" or "desc" ("ASC", say) raises nothing: its field gets no ordering
\* clause, is not even looked up on the model, and the other pairs get
\* theirs, in order; the statement is built and executed.
C29_UnknownDirectionDropped ==
    SomeUnrecognised =>
        /\ pc # "raised"
        /\ error = "none"
        /\ stmt.order_by = IF idx <= 5 THEN <<>> ELSE KeptClauses(1)
        /\ Len(stmt.order_by) < Len(Listed(order_by)) \/ idx <= 5

\* of (zip_code, desc) and (nope, ASC) the first alone orders the statement
\* that was executed
C29_Witness ==
    /\ pc = "done"
    /\ order_by = PyList(<<PyName("zip_code"), PyName("nope")>>)
    /\ direction = PyList(<<PyName("desc"), PyName("ASC")>>)
    /\ stmt.order_by = <<[t |-> "desc", column |-> Address_zip_code]>>
    /\ result # NoResult

-----------------------------------------------------------------------------
(* The claim on added_criteria.                                            *)

RECURSIVE ExpectedCriteria(_, _)
\* depth-first, from entry j of a mapping: the added_criteria of every
\* well-formed entry that has a technique
ExpectedCriteria(items, j) ==
    IF j > Len(items) THEN <<>>
    ELSE IF ~ WellFormedEntry(items[j])
         THEN ExpectedCriteria(items, j + 1)
    ELSE (IF items[j].value.lazy \in LoadingTechniques
          THEN <<items[j].value.added_criteria>>
          ELSE <<>>)
         \o (IF items[j].value.children = None THEN <<>>
             ELSE ExpectedCriteria(items[j].value.children.d, 1))
         \o ExpectedCriteria(items, j + 1)

\* the element of a path is the attribute restricted by the criteria, or the
\* attribute as it is when there are none
RestrictedBy(x, criteria) ==
    IF criteria = None THEN x.t = "attr"
    ELSE x.t = "attr_and" /\ x.attr.t = "attr" /\ x.criteria = criteria.l

\* C30: the directive of a node with added_criteria has the criteria on
\* every attribute of its path, those of the ancestors as well as its own,
\* whether or not the ancestors have criteria themselves; the directive of a
\* node without added_criteria has every attribute of its path unrestricted.
C30_CriteriaOnWholePath ==
    (OptionsApplied /\ relationship_options # None) =>
        LET criteria == ExpectedCriteria(relationship_options.d, 1)
        IN  /\ Len(stmt.options) = Len(criteria)
            /\ \A j \in 1..Len(stmt.options) :
                  \A n \in 1..Len(stmt.options[j].path) :
                      RestrictedBy(stmt.options[j].path[n], criteria[j])

\* Address.city with criteria below User.addresses without: the directive of
\* the addresses is unrestricted, that of the city restricts both attributes
C30_Witness ==
    /\ OptionsApplied
    /\ relationship_options =
          PyDict(<<Item(User_addresses,
                        RelationshipOption("JOINED", None,
                            PyDict(<<Item(Address_city,
                                          RelationshipOption("JOINED", ZipCriteria,
                                                             None))>>)))>>)
    /\ stmt.options[1].path = <<User_addresses>>
    /\ stmt.options[2].path = <<AttrAnd(User_addresses, ZipCriteria),
                                AttrAnd(Address_city, ZipCriteria)>>

====
